---- MODULE Spec2Model ----
(***************************************************************************)
(* Model of the normalization layer of the student study planner           *)
(* (src/app.py): the helper functions and the body of plan(), from the     *)
(* producer's result to the context handed to the template.                *)
(*                                                                         *)
(* Python values are records [t, v]: t is the type tag, v the payload.     *)
(* A str is a sequence of one-character strings, a list a sequence of      *)
(* values, a dict a sequence of [k, val] pairs in insertion order.         *)
(***************************************************************************)
EXTENDS Integers, Sequences, FiniteSets, TLC

\* ------------------------------------------------------------------ values

None == [t |-> "none", v |-> <<>>]
\* a key the producer's dict does not hold
Absent == [t |-> "absent", v |-> <<>>]
Str(cs) == [t |-> "str", v |-> cs]
PyInt(n) == [t |-> "int", v |-> n]
List(xs) == [t |-> "list", v |-> xs]
Dict(ps) == [t |-> "dict", v |-> ps]
Pair(key, value) == [k |-> key, val |-> value]

IsStr(x) == x.t = "str"
IsList(x) == x.t = "list"
IsDict(x) == x.t = "dict"
IsNone(x) == x.t = "none"

EmptyStr == Str(<<>>)
EmptyList == List(<<>>)
EmptyDict == Dict(<<>>)

\* Python truthiness: bool(x)
Truthy(x) ==
    CASE x.t = "none" -> FALSE
      [] x.t = "absent" -> FALSE
      [] x.t = "int" -> x.v # 0
      [] OTHER -> x.v # <<>>

\* x or y
Or(x, y) == IF Truthy(x) THEN x ELSE y

\* len(x) of a str, list or dict
PyLen(x) == Len(x.v)

\* ------------------------------------------------------------------ sequences

RECURSIVE Flatten(_)
Flatten(ss) == IF ss = <<>> THEN <<>> ELSE Head(ss) \o Flatten(Tail(ss))

Range(s) == {s[i] : i \in DOMAIN s}

Min(S) == CHOOSE x \in S : \A y \in S : x <= y
Max(S) == 0 - Min({0 - x : x \in S})

\* s[from:] as a sequence (1-based from)
Drop(s, from) == SubSeq(s, from, Len(s))

\* ------------------------------------------------------------------ dicts

HasKey(ps, key) == \E i \in DOMAIN ps : ps[i].k = key

\* d[key] = value: a new key is appended, an old key keeps its place
DictSet(ps, key, value) ==
    IF HasKey(ps, key)
    THEN [i \in DOMAIN ps |-> IF ps[i].k = key THEN Pair(key, value) ELSE ps[i]]
    ELSE Append(ps, Pair(key, value))

\* d.get(key): None when the key is missing
DictGet(ps, key) ==
    IF HasKey(ps, key)
    THEN ps[CHOOSE i \in DOMAIN ps : ps[i].k = key].val
    ELSE None

Keys(ps) == [i \in DOMAIN ps |-> ps[i].k]
Values(ps) == [i \in DOMAIN ps |-> ps[i].val]

\* list(dict.fromkeys(xs)): first occurrences, in order (exact equality)
RECURSIVE DictFromKeys(_)
DictFromKeys(xs) ==
    IF xs = <<>> THEN <<>>
    ELSE LET init == DictFromKeys(SubSeq(xs, 1, Len(xs) - 1))
             last == xs[Len(xs)]
         IN IF last \in Range(init) THEN init ELSE Append(init, last)

\* ------------------------------------------------------------------ characters

Digits == <<"0", "1", "2", "3", "4", "5", "6", "7", "8", "9">>
IsDigit(c) == c \in Range(Digits)
DigitVal(c) == (CHOOSE i \in DOMAIN Digits : Digits[i] = c) - 1
\* \s
IsSpace(c) == c \in {" ", "\n", "\t", "\r"}
Lowers == <<"a", "b", "c", "d", "e", "f", "g", "h", "i", "j", "k", "l", "m",
            "n", "o", "p", "q", "r", "s", "t", "u", "v", "w", "x", "y", "z">>
Uppers == <<"A", "B", "C", "D", "E", "F", "G", "H", "I", "J", "K", "L", "M",
            "N", "O", "P", "Q", "R", "S", "T", "U", "V", "W", "X", "Y", "Z">>
IsUpper(c) == c \in Range(Uppers)
IsAlnum(c) == c \in Range(Uppers) \cup Range(Lowers) \cup Range(Digits)
\* c.lower()
LowerChar(c) == IF IsUpper(c) THEN Lowers[CHOOSE i \in DOMAIN Uppers : Uppers[i] = c] ELSE c
\* s.lower()
Lower(s) == [i \in DOMAIN s |-> LowerChar(s[i])]

\* ------------------------------------------------------------------ strings

\* the least element of S, or default when S is empty
FirstOr(S, default) == IF S = {} THEN default ELSE Min(S)

\* the index of the first character at or after i that is no whitespace
SkipSpace(s, i) ==
    IF i > Len(s) THEN i ELSE FirstOr({j \in i..Len(s) : ~IsSpace(s[j])}, Len(s) + 1)

\* s.strip()
Strip(s) ==
    LET Between(c) == IF c = {} THEN <<>> ELSE SubSeq(s, Min(c), Max(c))
    IN Between({i \in DOMAIN s : ~IsSpace(s[i])})

\* s.replace(a, b) for single characters
Replace(s, a, b) == [i \in DOMAIN s |-> IF s[i] = a THEN b ELSE s[i]]

\* the index of the end of the line holding position i: the last index before
\* the next "\n" (i - 1 when s[i] is "\n" or i is past the end)
LineEnd(s, i) ==
    IF i > Len(s) THEN i - 1 ELSE FirstOr({j \in i..Len(s) : s[j] = "\n"}, Len(s) + 1) - 1

\* sub in s: substring test
Contains(s, sub) ==
    \E i \in 1..(Len(s) - Len(sub) + 1) : SubSeq(s, i, i + Len(sub) - 1) = sub

\* whether sub occurs in s at index i
At(s, i, sub) == i >= 1 /\ i + Len(sub) - 1 <= Len(s) /\ SubSeq(s, i, i + Len(sub) - 1) = sub
\* the same under re.IGNORECASE (sub is lower case)
AtNoCase(s, i, sub) ==
    i >= 1 /\ i + Len(sub) - 1 <= Len(s) /\ Lower(SubSeq(s, i, i + Len(sub) - 1)) = sub

\* s.splitlines() for "\n" line ends
RECURSIVE SplitLines(_)
SplitLines(s) ==
    LET Cut(e) == <<SubSeq(s, 1, e)>> \o SplitLines(Drop(s, e + 2))
    IN IF s = <<>> THEN <<>> ELSE Cut(LineEnd(s, 1))

\* re.split(r",\s*|\n", s): the pieces between the separators, empty ones kept
RECURSIVE ReSplitFrom(_, _)
ReSplitFrom(s, start) ==
    LET Cut(i) ==
            IF i > Len(s) THEN <<SubSeq(s, start, Len(s))>>
            ELSE <<SubSeq(s, start, i - 1)>>
                 \o ReSplitFrom(s, IF s[i] = "," THEN SkipSpace(s, i + 1) ELSE i + 1)
    IN Cut(FirstOr({i \in start..Len(s) : s[i] \in {",", "\n"}}, Len(s) + 1))
ReSplit(s) == ReSplitFrom(s, 1)

StripAll(parts) == [i \in DOMAIN parts |-> Strip(parts[i])]
NonBlank(s) == Strip(s) # <<>>
\* [t.strip() for t in re.split(r",\s*|\n", s) if t.strip()]
SplitTopics(s) == StripAll(SelectSeq(ReSplit(s), NonBlank))

\* " ".join(parts)
RECURSIVE JoinSpace(_)
JoinSpace(parts) ==
    IF parts = <<>> THEN <<>>
    ELSE IF Len(parts) = 1 THEN parts[1]
    ELSE parts[1] \o <<" ">> \o JoinSpace(Tail(parts))

\* ------------------------------------------------------------------ json

JFail == [ok |-> FALSE, val |-> None, pos |-> 1]
JOk(value, next) == [ok |-> TRUE, val |-> value, pos |-> next]

\* the index of the quote closing a JSON string whose content starts at i; 0 when
\* the string is not closed or holds a control character.  Escapes are outside
\* the modelled alphabet: a backslash ends the parse as a failure.
JStringEnd(s, i) ==
    LET Closing(c) == IF c = {} THEN 0 ELSE IF s[Min(c)] = "\"" THEN Min(c) ELSE 0
    IN Closing({j \in i..Len(s) : s[j] \in {"\"", "\n", "\t", "\r", "\\"}})

\* a JSON string at i (s[i] is the opening quote)
JString(s, i) ==
    LET Content(e) == IF e = 0 THEN JFail ELSE JOk(SubSeq(s, i + 1, e - 1), e + 1)
    IN Content(JStringEnd(s, i + 1))

\* the index after the run of digits that starts at i
DigitsEnd(s, i) ==
    LET First(c) == IF c = {} THEN Len(s) + 1 ELSE Min(c)
    IN IF i > Len(s) THEN i ELSE First({j \in i..Len(s) : ~IsDigit(s[j])})

RECURSIVE DigitsVal(_)
DigitsVal(ds) ==
    IF ds = <<>> THEN 0
    ELSE 10 * DigitsVal(SubSeq(ds, 1, Len(ds) - 1)) + DigitVal(ds[Len(ds)])

\* a JSON integer at i: -?(0|[1-9]\d*) (fractions and exponents are outside the
\* modelled alphabet)
JNumber(s, i) ==
    LET Signed(neg, n, e) == JOk(PyInt(IF neg THEN 0 - n ELSE n), e)
        Run(neg, d, e) == Signed(neg, DigitsVal(SubSeq(s, d, e - 1)), e)
        From(neg, d) ==
            IF d > Len(s) \/ ~IsDigit(s[d]) THEN JFail
            ELSE Run(neg, d, IF s[d] = "0" THEN d + 1 ELSE DigitsEnd(s, d))
        Sign(neg) == From(neg, IF neg THEN i + 1 ELSE i)
    IN Sign(i <= Len(s) /\ s[i] = "-")

RECURSIVE JValue(_, _)
RECURSIVE JArrayRest(_, _, _)
RECURSIVE JObjectRest(_, _, _)

\* the elements of an array from i, where an element is expected
JArrayRest(s, i, acc) ==
    LET Close(r, j) ==
            IF ~r.ok \/ j > Len(s) THEN JFail
            ELSE IF s[j] = "," THEN JArrayRest(s, SkipSpace(s, j + 1), Append(acc, r.val))
            ELSE IF s[j] = "]" THEN JOk(List(Append(acc, r.val)), j + 1)
            ELSE JFail
        Element(r) == Close(r, SkipSpace(s, r.pos))
    IN Element(JValue(s, i))

\* the members of an object from i, where a key is expected
JObjectRest(s, i, acc) ==
    LET CloseMember(key, r, j) ==
            IF ~r.ok \/ j > Len(s) THEN JFail
            ELSE IF s[j] = "," THEN JObjectRest(s, SkipSpace(s, j + 1), DictSet(acc, key.val, r.val))
            ELSE IF s[j] = "}" THEN JOk(Dict(DictSet(acc, key.val, r.val)), j + 1)
            ELSE JFail
        Member(key, r) == CloseMember(key, r, SkipSpace(s, r.pos))
        Colon(key, c) ==
            IF ~key.ok \/ c > Len(s) \/ s[c] # ":" THEN JFail
            ELSE Member(key, JValue(s, SkipSpace(s, c + 1)))
        Key(key) == Colon(key, SkipSpace(s, key.pos))
    IN IF i > Len(s) \/ s[i] # "\"" THEN JFail ELSE Key(JString(s, i))

\* one JSON value at i (the literals true and false are outside the alphabet)
JValue(s, i) ==
    LET Quoted(r) == IF r.ok THEN JOk(Str(r.val), r.pos) ELSE JFail
        Object(j) ==
            IF j <= Len(s) /\ s[j] = "}" THEN JOk(EmptyDict, j + 1) ELSE JObjectRest(s, j, <<>>)
        Array(j) ==
            IF j <= Len(s) /\ s[j] = "]" THEN JOk(EmptyList, j + 1) ELSE JArrayRest(s, j, <<>>)
    IN IF i > Len(s) THEN JFail
       ELSE IF s[i] = "\"" THEN Quoted(JString(s, i))
       ELSE IF s[i] = "{" THEN Object(SkipSpace(s, i + 1))
       ELSE IF s[i] = "[" THEN Array(SkipSpace(s, i + 1))
       ELSE IF At(s, i, <<"n", "u", "l", "l">>) THEN JOk(None, i + 4)
       ELSE JNumber(s, i)

\* json.loads(s): [ok, val]; ok is FALSE where json.loads raises
json_loads(s) ==
    LET Whole(r) == IF r.ok /\ SkipSpace(s, r.pos) > Len(s) THEN r ELSE JFail
    IN Whole(JValue(s, SkipSpace(s, 1)))

\* ------------------------------------------------------------------ str()

RECURSIVE NatToStr(_)
NatToStr(n) == IF n < 10 THEN <<Digits[n + 1]>> ELSE NatToStr(n \div 10) \o <<Digits[(n % 10) + 1]>>
IntToStr(n) == IF n < 0 THEN <<"-">> \o NatToStr(0 - n) ELSE NatToStr(n)

\* repr(s) of a str: single quotes, double quotes when s holds a single quote
\* and no double quote (strings holding both are outside the inputs)
ReprStr(s) ==
    IF "'" \in Range(s) /\ "\"" \notin Range(s)
    THEN <<"\"">> \o s \o <<"\"">>
    ELSE <<"'">> \o s \o <<"'">>

RECURSIVE JoinComma(_)
JoinComma(parts) ==
    IF parts = <<>> THEN <<>>
    ELSE IF Len(parts) = 1 THEN parts[1]
    ELSE parts[1] \o <<",", " ">> \o JoinComma(Tail(parts))

RECURSIVE Repr(_)
Repr(x) ==
    CASE x.t = "str" -> ReprStr(x.v)
      [] x.t = "int" -> IntToStr(x.v)
      [] x.t = "list" -> <<"[">> \o JoinComma([i \in DOMAIN x.v |-> Repr(x.v[i])]) \o <<"]">>
      [] x.t = "dict" ->
            <<"{">> \o JoinComma([i \in DOMAIN x.v |->
                          ReprStr(x.v[i].k) \o <<":", " ">> \o Repr(x.v[i].val)]) \o <<"}">>
      [] OTHER -> <<"N", "o", "n", "e">>

\* str(x)
PyStr(x) == IF x.t = "str" THEN x.v ELSE Repr(x)

\* ------------------------------------------------------------------ dates

\* datetime.date as [y, m, d]
IsLeap(y) == (y % 4 = 0 /\ y % 100 # 0) \/ y % 400 = 0
DaysInMonth(y, m) ==
    IF m = 2 THEN (IF IsLeap(y) THEN 29 ELSE 28)
    ELSE IF m \in {4, 6, 9, 11} THEN 30 ELSE 31
NextDay(dt) ==
    IF dt.d < DaysInMonth(dt.y, dt.m) THEN [dt EXCEPT !.d = dt.d + 1]
    ELSE IF dt.m < 12 THEN [y |-> dt.y, m |-> dt.m + 1, d |-> 1]
    ELSE [y |-> dt.y + 1, m |-> 1, d |-> 1]
PrevDay(dt) ==
    IF dt.d > 1 THEN [dt EXCEPT !.d = dt.d - 1]
    ELSE IF dt.m > 1 THEN [y |-> dt.y, m |-> dt.m - 1, d |-> DaysInMonth(dt.y, dt.m - 1)]
    ELSE [y |-> dt.y - 1, m |-> 12, d |-> 31]
\* dt + timedelta(days=n), before the range check
RECURSIVE AddDays(_, _)
AddDays(dt, n) ==
    IF n = 0 THEN dt
    ELSE IF n > 0 THEN AddDays(NextDay(dt), n - 1)
    ELSE AddDays(PrevDay(dt), n + 1)
\* date arithmetic raises OverflowError outside date.min .. date.max
InDateRange(dt) == dt.y \in 1..9999

RECURSIVE Pad(_, _)
Pad(cs, width) == IF Len(cs) >= width THEN cs ELSE Pad(<<"0">> \o cs, width)
\* dt.isoformat()
isoformat(dt) ==
    Pad(NatToStr(dt.y), 4) \o <<"-">> \o Pad(NatToStr(dt.m), 2) \o <<"-">> \o Pad(NatToStr(dt.d), 2)

\* \d{4}-\d{2}-\d{2} at index i of s
IsDateAt(s, i) ==
    /\ i >= 1
    /\ i + 9 <= Len(s)
    /\ \A o \in {0, 1, 2, 3, 5, 6, 8, 9} : IsDigit(s[i + o])
    /\ s[i + 4] = "-"
    /\ s[i + 7] = "-"

\* date.fromisoformat(s) for the YYYY-MM-DD form: [ok, val]; ok is FALSE where it
\* raises ValueError
fromisoformat(s) ==
    IF Len(s) = 10 /\ IsDateAt(s, 1)
    THEN LET dt == [y |-> DigitsVal(SubSeq(s, 1, 4)), m |-> DigitsVal(SubSeq(s, 6, 7)),
                    d |-> DigitsVal(SubSeq(s, 9, 10))]
         IN IF dt.y >= 1 /\ dt.m \in 1..12 /\ dt.d >= 1 /\ dt.d <= DaysInMonth(dt.y, dt.m)
            THEN [ok |-> TRUE, val |-> dt]
            ELSE [ok |-> FALSE, val |-> dt]
    ELSE [ok |-> FALSE, val |-> [y |-> 0, m |-> 0, d |-> 0]]

\* ------------------------------------------------------------------ try_load_json

\* json.loads(s), and json.loads(s.replace("'", '"')) when that raises: [ok, val]
\* of the first that parses
LoadsLenient(s) ==
    LET FirstOk(tries) == IF tries[1].ok THEN tries[1] ELSE tries[2]
    IN FirstOk([i \in 1..2 |-> json_loads(IF i = 1 THEN s ELSE Replace(s, "'", "\""))])

try_load_json(x) ==
    LET Loaded(s, r) == IF s # <<>> /\ r.ok THEN r.val ELSE Str(s)
        Stripped(s) == Loaded(s, LoadsLenient(s))
    IN IF x.t # "str" THEN x ELSE Stripped(Strip(x.v))

\* ------------------------------------------------------------------ regex pieces

MFail == [ok |-> FALSE, text |-> <<>>, end |-> 0]
MOk(chars, last) == [ok |-> TRUE, text |-> chars, end |-> last]

\* [:\-–—]: the en and em dash are the characters "ndash" and "mdash"
DateSeps == {":", "-", "ndash", "mdash"}

\* whether index i starts a line (^ under re.MULTILINE)
LineStart(s, i) == i = 1 \/ (i > 1 /\ i <= Len(s) + 1 /\ s[i - 1] = "\n")

\* where (.+) starts after a greedy run of optional characters ending at hi: the
\* engine gives characters back one at a time, so it is the largest index in
\* lo..hi that holds a character other than "\n"; 0 when there is none
GroupStart(s, lo, hi) ==
    LET Last(c) == IF c = {} THEN 0 ELSE Max(c)
    IN Last({p \in lo..hi : p <= Len(s) /\ s[p] # "\n"})

\* (.+) from p to the end of its line; no match when p = 0
RestOfLine(s, p) ==
    LET Upto(e) == MOk(SubSeq(s, p, e), e)
    IN IF p = 0 THEN MFail ELSE Upto(LineEnd(s, p))

\* \s*[:\-]\s*(.+) at index j (optional: \s*[:\-]?\s*(.+)); (.+) runs to the end
\* of its line
SepTopics(s, j, optional) ==
    LET Group(a, hasSep, k) ==
            IF optional \/ hasSep THEN GroupStart(s, IF optional THEN j ELSE a + 1, k) ELSE 0
        Sep(a, hasSep) == Group(a, hasSep, IF hasSep THEN SkipSpace(s, a + 1) ELSE a)
        Lead(a) == Sep(a, a <= Len(s) /\ s[a] \in DateSeps)
    IN RestOfLine(s, Lead(SkipSpace(s, j)))

\* a match that holds a date: [ok, date, text, end]
NoLine == [ok |-> FALSE, date |-> <<>>, text |-> <<>>, end |-> 0]
DatedLine(date, m) == [ok |-> m.ok, date |-> date, text |-> m.text, end |-> m.end]

\* finditer over the matches ms[i] at every index i: left to right, none
\* overlapping
RECURSIVE MatchedFrom(_, _)
MatchedFrom(ms, from) ==
    LET Take(m) == <<m>> \o MatchedFrom(ms, m.end + 1)
        Leftmost(c) == IF c = {} THEN <<>> ELSE Take(ms[Min(c)])
    IN Leftmost({i \in from..Len(ms) : ms[i].ok})

\* [m.group(1).strip() for m in ...]
MatchedTexts(found) == [i \in DOMAIN found |-> Strip(found[i].text)]

\* out[m.group("date").strip()] = m.group("topics").strip() for every match
RECURSIVE SetDates(_, _)
SetDates(found, out) ==
    IF found = <<>> THEN out
    ELSE SetDates(Tail(found), DictSet(out, Strip(found[1].date), Str(Strip(found[1].text))))

\* ------------------------------------------------------------------ list_to_date_dict

KeyDate == <<"d", "a", "t", "e">>
KeyDay == <<"d", "a", "y">>
KeyTopics == <<"t", "o", "p", "i", "c", "s">>
KeyTopic == <<"t", "o", "p", "i", "c">>
KeyItems == <<"i", "t", "e", "m", "s">>

\* re.match(r"\s*(\d{4}-\d{2}-\d{2})\s*[:\-–—]\s*(.+)", e) for the str entries
RECURSIVE ListToDateDictFrom(_, _)
ListToDateDictFrom(lst, out) ==
    LET Keyed(date_key, tps) ==
            IF Truthy(date_key) THEN DictSet(out, PyStr(date_key), tps) ELSE out
        FromDict(e) ==
            Keyed(Or(DictGet(e, KeyDate), DictGet(e, KeyDay)),
                  Or(DictGet(e, KeyTopics), Or(DictGet(e, KeyTopic), DictGet(e, KeyItems))))
        Dated(e, d, m) ==
            IF m.ok THEN DictSet(out, SubSeq(e, d, d + 9), Str(Strip(m.text))) ELSE out
        DateAt(e, d) == IF IsDateAt(e, d) THEN Dated(e, d, SepTopics(e, d + 10, FALSE)) ELSE out
        FromStr(e) == DateAt(e, SkipSpace(e, 1))
        Entry(e) == IF IsDict(e) THEN FromDict(e.v) ELSE IF IsStr(e) THEN FromStr(e.v) ELSE out
    IN IF lst = <<>> THEN out ELSE ListToDateDictFrom(Tail(lst), Entry(Head(lst)))

list_to_date_dict(lst) ==
    IF ~IsList(lst) THEN EmptyDict ELSE Dict(ListToDateDictFrom(lst.v, <<>>))

\* ------------------------------------------------------------------ parse_schedule_from_text

\* (?P<date>\d{4}-\d{2}-\d{2})\s*[:\-–—]\s*(?P<topics>.+) at index i
DateLineAt(s, i) ==
    IF IsDateAt(s, i) THEN DatedLine(SubSeq(s, i, i + 9), SepTopics(s, i + 10, FALSE)) ELSE NoLine

\* ^[\-\*\+]\s*(?P<date>\d{4}-\d{2}-\d{2})\s*[:\-–—]?\s*(?P<topics>.+)$ at index i,
\* re.MULTILINE
BulletAt(s, i) ==
    LET Dated(d) ==
            IF IsDateAt(s, d) THEN DatedLine(SubSeq(s, d, d + 9), SepTopics(s, d + 10, TRUE))
            ELSE NoLine
    IN IF LineStart(s, i) /\ s[i] \in {"-", "*", "+"} THEN Dated(SkipSpace(s, i + 1)) ELSE NoLine

\* the last index of the run of [^|\n] characters that starts at i
CellEnd(s, i) ==
    IF i > Len(s) THEN i - 1 ELSE FirstOr({j \in i..Len(s) : s[j] \in {"|", "\n"}}, Len(s) + 1) - 1

\* whether [^|\n]+\| matches from p
ClosedCellAt(s, p) ==
    LET Closed(e) == e + 1 <= Len(s) /\ s[e + 1] = "|"
    IN p <= Len(s) /\ s[p] \notin {"|", "\n"} /\ Closed(CellEnd(s, p))

\* \|\s*(?P<date>\d{4}-\d{2}-\d{2})\s*\|\s*(?P<topics>[^|\n]+)\| at index i: \s*
\* gives characters back, so the cell starts at the largest index that matches
TableRowAt(s, i) ==
    LET Cell(d, p, e) ==
            [ok |-> TRUE, date |-> SubSeq(s, d, d + 9), text |-> SubSeq(s, p, e), end |-> e + 1]
        From(d, p) == Cell(d, p, CellEnd(s, p))
        Row(d, c) == IF c = {} THEN NoLine ELSE From(d, Max(c))
        Bar(d, b) ==
            IF b <= Len(s) /\ s[b] = "|"
            THEN Row(d, {p \in (b + 1)..SkipSpace(s, b + 1) : ClosedCellAt(s, p)})
            ELSE NoLine
        Date(d) == IF IsDateAt(s, d) THEN Bar(d, SkipSpace(s, d + 10)) ELSE NoLine
    IN IF s[i] = "|" THEN Date(SkipSpace(s, i + 1)) ELSE NoLine

\* the three scans of lines 84-97, each writing over the entries before it
ScannedDates(text) ==
    SetDates(MatchedFrom([i \in DOMAIN text |-> TableRowAt(text, i)], 1),
        SetDates(MatchedFrom([i \in DOMAIN text |-> BulletAt(text, i)], 1),
            SetDates(MatchedFrom([i \in DOMAIN text |-> DateLineAt(text, i)], 1), <<>>)))

\* re.findall(r"(\{[\s\S]{0,6000}\})", text): greedy, so the one match runs from
\* the first "{" to the last "}" (texts are shorter than 6000 characters)
json_matches(s) ==
    LET Span(opens, closes) ==
            IF opens # {} /\ closes # {} /\ Max(closes) > Min(opens)
            THEN <<SubSeq(s, Min(opens), Max(closes))>>
            ELSE <<>>
    IN Span({i \in DOMAIN s : s[i] = "{"}, {i \in DOMAIN s : s[i] = "}"})

KeySchedule == <<"s", "c", "h", "e", "d", "u", "l", "e">>

\* obj.get("schedule") or {} of the blob that parses to a dict holding "schedule";
\* None when there is no such blob
BlobSchedule(jm) ==
    LET Held(obj) ==
            IF obj.ok /\ IsDict(obj.val) /\ HasKey(obj.val.v, KeySchedule)
            THEN Or(DictGet(obj.val.v, KeySchedule), EmptyDict)
            ELSE None
    IN IF jm = <<>> THEN None ELSE Held(json_loads(jm[1]))

parse_schedule_from_text(text) ==
    LET Parsed(sch) ==
            IF IsDict(sch) THEN sch
            ELSE IF IsList(sch) THEN list_to_date_dict(sch)
            ELSE Dict(ScannedDates(text))
    IN IF text = <<>> THEN EmptyDict ELSE Parsed(BlobSchedule(json_matches(text)))

\* ------------------------------------------------------------------ extract_json_from_text

\* the backquote is the character "bq"
FenceOpen == <<"bq", "bq", "bq", "j", "s", "o", "n">>
FenceClose == <<"bq", "bq", "bq">>
MinBlobLen == 50
MaxBlobLen == 10000

\* the ends of a match of ```json\s*(\{[\s\S]+\})\s*``` (re.IGNORECASE) at i
FencedEnds(s, i) ==
    LET Group(j) ==
            IF j <= Len(s) /\ s[j] = "{"
            THEN {e \in (j + 2)..Len(s) : s[e] = "}" /\ At(s, SkipSpace(s, e + 1), FenceClose)}
            ELSE {}
    IN IF AtNoCase(s, i, FenceOpen) THEN Group(SkipSpace(s, i + 7)) ELSE {}

\* the ends of a match of (\{[\s\S]{50,10000}\}) at i
BareEnds(s, i) ==
    IF s[i] = "{"
    THEN {e \in (i + MinBlobLen + 1)..Len(s) : e <= i + MaxBlobLen + 1 /\ s[e] = "}"}
    ELSE {}

\* m.group(1) of the first search that matches: the leftmost start, the longest
\* group; <<>> when neither matches
BlobText(text) ==
    LET Bare(i) == SubSeq(text, i, Max(BareEnds(text, i)))
        FirstBare(bare) == IF bare = {} THEN <<>> ELSE Bare(Min(bare))
        Fenced(i) == SubSeq(text, SkipSpace(text, i + 7), Max(FencedEnds(text, i)))
        FirstFenced(fenced) ==
            IF fenced # {} THEN Fenced(Min(fenced))
            ELSE FirstBare({i \in DOMAIN text : BareEnds(text, i) # {}})
    IN FirstFenced({i \in DOMAIN text : FencedEnds(text, i) # {}})

extract_json_from_text(text) ==
    LET Loaded(r) == IF r.ok THEN r.val ELSE None
        Group(js) == IF js = <<>> THEN None ELSE Loaded(LoadsLenient(js))
    IN IF text = <<>> THEN None ELSE Group(BlobText(text))

\* ------------------------------------------------------------------ salvage_notes_from_raw

NotesTag == <<"n", "o", "t", "e", "s">>
QuizzesTag == <<"q", "u", "i", "z", "z", "e", "s">>

\* $ without re.MULTILINE: the end of the text, or before its last "\n"
DollarAt(s, r) == r = Len(s) + 1 \/ (r = Len(s) /\ s[r] = "\n")

\* (?:\n\s*\n\s*(quizzes|schedule|$)) at index q
NotesTail(s, q) ==
    /\ q <= Len(s)
    /\ s[q] = "\n"
    /\ \E n \in (q + 1)..(SkipSpace(s, q + 1) - 1) :
          /\ s[n] = "\n"
          /\ \E r \in (n + 1)..SkipSpace(s, n + 1) :
                AtNoCase(s, r, QuizzesTag) \/ AtNoCase(s, r, KeySchedule) \/ DollarAt(s, r)

\* the index after the run of [:\-] characters that starts at i
SepRunEnd(s, i) ==
    IF i > Len(s) THEN i ELSE FirstOr({j \in i..Len(s) : s[j] \notin {":", "-"}}, Len(s) + 1)

\* the ends e of (.+?) for a group that starts at p
NotesEnds(s, p) == {e \in p..Len(s) : NotesTail(s, e + 1)}

\* the starts of (.+?) after notes\s*[:\-]*\s* matched at i: the greedy prefix
\* gives characters back one at a time, so every index up to its end
NotesStarts(s, i) ==
    IF AtNoCase(s, i, NotesTag)
    THEN {p \in (i + 5)..SkipSpace(s, SepRunEnd(s, SkipSpace(s, i + 5))) : NotesEnds(s, p) # {}}
    ELSE {}

\* the index after the run of [A-Za-z0-9 \-] characters that starts at i
LabelRunEnd(s, i) ==
    IF i > Len(s) THEN i
    ELSE FirstOr({j \in i..Len(s) : ~(IsAlnum(s[j]) \/ s[j] \in {" ", "-"})}, Len(s) + 1)

\* (?=[A-Za-z0-9 \-]{2,}:\s) at index j
LabelAhead(s, j) ==
    LET Label(r) == r - j >= 2 /\ r + 1 <= Len(s) /\ s[r] = ":" /\ IsSpace(s[r + 1])
    IN Label(LabelRunEnd(s, j))

\* the index after the run of "\n" that starts at i
NewlineRunEnd(s, i) ==
    IF i > Len(s) THEN i ELSE FirstOr({j \in i..Len(s) : s[j] # "\n"}, Len(s) + 1)

\* re.split(r"\n{2,}|\n(?=[A-Za-z0-9 \-]{2,}:\s)", s)
RECURSIVE NotesSplitFrom(_, _)
NotesSplitFrom(s, start) ==
    LET Cut(i) ==
            IF i > Len(s) THEN <<SubSeq(s, start, Len(s))>>
            ELSE <<SubSeq(s, start, i - 1)>>
                 \o NotesSplitFrom(s, IF i + 1 <= Len(s) /\ s[i + 1] = "\n"
                                      THEN NewlineRunEnd(s, i) ELSE i + 1)
    IN Cut(FirstOr({i \in start..Len(s) :
                       s[i] = "\n" /\ ((i + 1 <= Len(s) /\ s[i + 1] = "\n") \/ LabelAhead(s, i + 1))},
                   Len(s) + 1))

\* per_topic[tname.strip()] = body.strip() for the parts that hold a ":"
RECURSIVE PerTopic(_, _)
PerTopic(parts, out) ==
    LET Halves(part, c) ==
            DictSet(out, Strip(SubSeq(part, 1, c - 1)), Str(Strip(Drop(part, c + 1))))
        Entry(part) ==
            IF ":" \in Range(part) THEN Halves(part, Min({i \in DOMAIN part : part[i] = ":"}))
            ELSE out
    IN IF parts = <<>> THEN out ELSE PerTopic(Tail(parts), Entry(Head(parts)))

\* (?is)notes\s*[:\-]*\s*(.+?)(?:\n\s*\n\s*(quizzes|schedule|$)), re.search
salvage_notes_from_raw(raw) ==
    LET Shaped(notes_text, per_topic) ==
            IF per_topic # <<>> THEN Dict(per_topic) ELSE Str(notes_text)
        Split(notes_text) == Shaped(notes_text, PerTopic(NotesSplitFrom(notes_text, 1), <<>>))
        Group(p) == Split(Strip(SubSeq(raw, p, Min(NotesEnds(raw, p)))))
        Search(found) == IF found = {} THEN EmptyDict ELSE Group(Max(NotesStarts(raw, Min(found))))
    IN IF raw = <<>> THEN EmptyDict ELSE Search({i \in DOMAIN raw : NotesStarts(raw, i) # {}})

\* ------------------------------------------------------------------ naive_parse_quizzes_from_text

\* ^\s*Q[:\.\)]\s*(?P<q>.+)$ at the line start i (letter is "Q" or "A")
QALineAt(s, i, letter) ==
    LET Marked(a) ==
            IF a + 1 <= Len(s) /\ s[a] = letter /\ s[a + 1] \in {":", ".", ")"}
            THEN RestOfLine(s, GroupStart(s, a + 2, SkipSpace(s, a + 2)))
            ELSE MFail
    IN IF LineStart(s, i) THEN Marked(SkipSpace(s, i)) ELSE MFail

\* [m.group(1).strip() for m in re.finditer(...)]
QAScan(s, letter) == MatchedTexts(MatchedFrom([i \in DOMAIN s |-> QALineAt(s, i, letter)], 1))

KeyQuestion == <<"q", "u", "e", "s", "t", "i", "o", "n">>
KeyOptions == <<"o", "p", "t", "i", "o", "n", "s">>
KeyAnswerIndex == <<"a", "n", "s", "w", "e", "r", "_", "i", "n", "d", "e", "x">>
KeyAnswerText == <<"a", "n", "s", "w", "e", "r", "_", "t", "e", "x", "t">>
KeyAutoParsed == <<"a", "u", "t", "o", "_", "p", "a", "r", "s", "e", "d">>

naive_parse_quizzes_from_text(text) ==
    LET Question(qtxt, atxt) ==
            Dict(<<Pair(KeyQuestion, Str(qtxt)), Pair(KeyOptions, EmptyList),
                   Pair(KeyAnswerIndex, None), Pair(KeyAnswerText, Str(atxt))>>)
        Paired(q_matches, a_matches) ==
            IF q_matches = <<>> THEN EmptyDict
            ELSE Dict(<<Pair(KeyAutoParsed,
                            List([i \in DOMAIN q_matches |->
                                    Question(q_matches[i],
                                             IF i <= Len(a_matches) THEN a_matches[i] ELSE <<>>)]))>>)
        Matches(by) == Paired(by["Q"], by["A"])
    IN IF text = <<>> THEN EmptyDict ELSE Matches([letter \in {"Q", "A"} |-> QAScan(text, letter)])

\* ------------------------------------------------------------------ extract_topics_from_syllabus_text

\* ^[\-\*•]\s+(.+)$ at the line start i (U+2022 is the character "bullet")
BulletTopicAt(s, i) ==
    IF LineStart(s, i) /\ i + 1 <= Len(s) /\ s[i] \in {"-", "*", "bullet"} /\ IsSpace(s[i + 1])
    THEN RestOfLine(s, GroupStart(s, i + 2, SkipSpace(s, i + 1)))
    ELSE MFail

\* ^\s*\d+\.\s+(.+)$ at the line start i
NumberedTopicAt(s, i) ==
    LET Dot(a, e) ==
            IF e > a /\ e + 1 <= Len(s) /\ s[e] = "." /\ IsSpace(s[e + 1])
            THEN RestOfLine(s, GroupStart(s, e + 2, SkipSpace(s, e + 1)))
            ELSE MFail
        Number(a) == Dot(a, DigitsEnd(s, a))
    IN IF LineStart(s, i) THEN Number(SkipSpace(s, i)) ELSE MFail

\* the index after the run of "#" that starts at i
HashRunEnd(s, i) ==
    IF i > Len(s) THEN i ELSE FirstOr({j \in i..Len(s) : s[j] # "#"}, Len(s) + 1)

\* ^\s{0,3}#{1,6}\s+(.+)$ at the line start i
HeadingTopicAt(s, i) ==
    LET Title(a, h) ==
            IF a - i <= 3 /\ h - a >= 1 /\ h - a <= 6 /\ h <= Len(s) /\ IsSpace(s[h])
            THEN RestOfLine(s, GroupStart(s, h + 1, SkipSpace(s, h)))
            ELSE MFail
        Hashes(a) == Title(a, HashRunEnd(s, a))
    IN IF LineStart(s, i) THEN Hashes(SkipSpace(s, i)) ELSE MFail

TopicKinds == <<"bullet", "numbered", "heading">>

TopicLineAt(s, i, kind) ==
    CASE kind = "bullet" -> BulletTopicAt(s, i)
      [] kind = "numbered" -> NumberedTopicAt(s, i)
      [] OTHER -> HeadingTopicAt(s, i)

\* [m.group(1).strip() for m in re.finditer(...)]
TopicScan(s, kind) == MatchedTexts(MatchedFrom([i \in DOMAIN s |-> TopicLineAt(s, i, kind)], 1))

\* len(line.split())
WordCount(line) ==
    Cardinality({j \in DOMAIN line : ~IsSpace(line[j]) /\ (j = 1 \/ IsSpace(line[j - 1]))})

\* 3 <= len(line.split()) <= 10 and not line.endswith('.')
PlausibleTopic(line) ==
    LET Words(n) == n >= 3 /\ n <= 10 /\ line[Len(line)] # "."
    IN Words(WordCount(line))

\* the dedupe loop: first occurrences under lower(), empty strings dropped
RECURSIVE DedupeLower(_)
DedupeLower(topics) ==
    LET Seen(init, last) ==
            IF last # <<>> /\ Lower(last) \notin {Lower(init[i]) : i \in DOMAIN init}
            THEN Append(init, last) ELSE init
    IN IF topics = <<>> THEN <<>>
       ELSE Seen(DedupeLower(SubSeq(topics, 1, Len(topics) - 1)), topics[Len(topics)])

\* the result is a sequence of character sequences
extract_topics_from_syllabus_text(text) ==
    LET Candidates(marked) ==
            IF marked # <<>> THEN marked
            ELSE SelectSeq(StripAll(SplitLines(text)), PlausibleTopic)
    IN IF text = <<>> THEN <<>>
       ELSE DedupeLower(Candidates(Flatten([k \in DOMAIN TopicKinds |-> TopicScan(text, TopicKinds[k])])))

\* ------------------------------------------------------------------ plan(): state

VARIABLES
    pc,             \* the position in plan()
    form,           \* request.form: syllabus_text, syllabus, exam_date, days ("" = missing)
    produced,       \* what planner_crew.run() returns on this request
    crew_raises,    \* whether planner_crew.run() raises
    today,          \* date.today()
    pass,           \* 1: the request; 2: the document fed back as a producer result
    first,          \* the context of pass 1, kept for the comparison with pass 2
    syllabus_text, exam_date, days,
    result,         \* the producer's dict (a mutable object)
    raw, parsed_blob, topics, schedule, notes, quizzes,
    shared,         \* whether schedule is the very dict object result["schedule"]
    context,        \* the document handed to the template
    raised,         \* the exception that left plan(), "" when none
    coerce_in,      \* x of a call of try_load_json on its own
    coerce_out      \* what that call returned

vars == <<pc, form, produced, crew_raises, today, pass, first, syllabus_text, exam_date, days,
          result, raw, parsed_blob, topics, schedule, notes, quizzes, shared, context, raised,
          coerce_in, coerce_out>>

KeyNotes == <<"n", "o", "t", "e", "s">>
KeyQuizzes == <<"q", "u", "i", "z", "z", "e", "s">>

\* the producer's dict as a record; a field is Absent when the key is missing
MkResult(tp, sc, nt, qz, md) ==
    [topics |-> tp, schedule |-> sc, notes |-> nt, quizzes |-> qz, full_markdown |-> md,
     raw |-> Absent]

\* result.get(key, default)
Field(r, key, default) == IF r[key] = Absent THEN default ELSE r[key]

\* "Error running crew: " + repr(e), for e = RuntimeError('x')
CrewError ==
    <<"E", "r", "r", "o", "r", " ", "r", "u", "n", "n", "i", "n", "g", " ", "c", "r", "e", "w",
      ":", " ", "R", "u", "n", "t", "i", "m", "e", "E", "r", "r", "o", "r", "(", "'", "x", "'", ")">>

\* ------------------------------------------------------------------ plan(): reading the request

DefaultDays == 7

\* int(s): [ok, val]; ok is FALSE where int() raises ValueError
ParseInt(s) ==
    LET Fail == [ok |-> FALSE, val |-> 0]
        Value(negative, ds) ==
            IF ds # <<>> /\ \A i \in DOMAIN ds : IsDigit(ds[i])
            THEN [ok |-> TRUE, val |-> IF negative THEN 0 - DigitsVal(ds) ELSE DigitsVal(ds)]
            ELSE Fail
        Signed(t) ==
            IF t # <<>> /\ t[1] \in {"-", "+"} THEN Value(t[1] = "-", Tail(t)) ELSE Value(FALSE, t)
    IN Signed(Strip(s))

\* days after lines 198-203
FormDays(f) ==
    LET Parsed(r) == IF f.days # <<>> /\ r.ok THEN PyInt(r.val) ELSE None
    IN Parsed(ParseInt(f.days))

\* days after lines 206-207
DefaultedDays(f, dys) == IF f.exam_date = <<>> /\ ~Truthy(dys) THEN PyInt(DefaultDays) ELSE dys

ReadInputs ==
    /\ pc = "read"
    /\ syllabus_text' = IF form.syllabus_text # <<>> THEN form.syllabus_text ELSE form.syllabus
    /\ exam_date' = IF form.exam_date # <<>> THEN Str(form.exam_date) ELSE None
    /\ days' = DefaultedDays(form, FormDays(form))
    /\ pc' = "run"
    /\ UNCHANGED <<coerce_in, coerce_out, form, produced, crew_raises, today, pass, first, result, raw, parsed_blob,
                   topics, schedule, notes, quizzes, shared, context, raised>>

\* lines 209-219: the producer's dict, or the substitute when run() raises
RunProducer ==
    /\ pc = "run"
    /\ result' = IF crew_raises
                 THEN MkResult(EmptyList, EmptyDict, EmptyDict, EmptyDict, Str(CrewError))
                 ELSE produced
    /\ pc' = "blob"
    /\ UNCHANGED <<coerce_in, coerce_out, form, produced, crew_raises, today, pass, first, syllabus_text, exam_date,
                   days, raw, parsed_blob, topics, schedule, notes, quizzes, shared, context,
                   raised>>

\* ------------------------------------------------------------------ plan(): embedded JSON

\* every value the blob holds under the key, an empty one too
OverridesWhenHeld(val) == val # None

\* val not in (None, [], {}, "")
Overrides(val) == val \notin {None, EmptyList, EmptyDict, EmptyStr}

\* the dict key that a field of the producer's record stands for
KeyOf(field) ==
    CASE field = "topics" -> KeyTopics
      [] field = "schedule" -> KeySchedule
      [] field = "notes" -> KeyNotes
      [] OTHER -> KeyQuizzes

\* result[key] = val for the keys of the blob that hold something (lines 236-240)
Overridden(r, blob) ==
    LET Held(old, val) == IF Overrides(val) THEN val ELSE old
    IN IF Truthy(blob) /\ IsDict(blob)
       THEN [field \in DOMAIN r |->
               IF field \in {"topics", "schedule", "notes", "quizzes"}
               THEN Held(r[field], DictGet(blob.v, KeyOf(field)))
               ELSE r[field]]
       ELSE r

\* the raw text read from the key "raw" alone
RawOfRawKey(r) == Or(Field(r, "raw", None), EmptyStr)

\* result.get("full_markdown") or result.get("raw") or ""
RawOf(r) == Or(Field(r, "full_markdown", None), Or(Field(r, "raw", None), EmptyStr))

ExtractBlob ==
    /\ pc = "blob"
    /\ raw' = RawOf(result).v
    /\ parsed_blob' = extract_json_from_text(raw')
    /\ result' = Overridden(result, parsed_blob')
    /\ pc' = "load"
    /\ UNCHANGED <<coerce_in, coerce_out, form, produced, crew_raises, today, pass, first, syllabus_text, exam_date,
                   days, topics, schedule, notes, quizzes, shared, context, raised>>

\* ------------------------------------------------------------------ plan(): loading the fields

\* the defaults of lines 243, 244 and 246
Defaults == [topics |-> EmptyList, schedule |-> EmptyDict, quizzes |-> EmptyDict]

\* try_load_json(result.get(key, default)) or default, for topics, schedule and
\* quizzes
LoadedFields(r) ==
    [field \in DOMAIN Defaults |->
        Or(try_load_json(Field(r, field, Defaults[field])), Defaults[field])]

\* line 245: json.loads raises on a str that is no JSON
NotesLoad(r) ==
    LET Strict(nt) == IF IsStr(nt) THEN json_loads(nt.v) ELSE JOk(nt, 1)
    IN Strict(Field(r, "notes", EmptyDict))

LoadFields ==
    /\ pc = "load"
    /\ LET Bound(f) == topics' = f.topics /\ schedule' = f.schedule /\ quizzes' = f.quizzes
       IN Bound(LoadedFields(result))
    /\ shared' = (IsDict(result.schedule) /\ Truthy(result.schedule))
    /\ LET Notes(r) ==
               IF r.ok THEN notes' = r.val /\ pc' = "convert" /\ raised' = raised
               ELSE notes' = notes /\ pc' = "raised" /\ raised' = "JSONDecodeError"
       IN Notes(NotesLoad(result))
    /\ UNCHANGED <<coerce_in, coerce_out, form, produced, crew_raises, today, pass, first, syllabus_text, exam_date,
                   days, result, raw, parsed_blob, context>>

\* ------------------------------------------------------------------ plan(): schedule to a dict

\* schedule[k] = try_load_json(v) for every entry (lines 253-255)
DecodeValues(sch) ==
    IF IsDict(sch) THEN Dict([i \in DOMAIN sch.v |-> Pair(sch.v[i].k, try_load_json(sch.v[i].val))])
    ELSE sch

\* a write through the alias when schedule is result["schedule"] itself
WriteThrough(r, sch, alias) == IF alias THEN [r EXCEPT !.schedule = sch] ELSE r

ConvertSchedule ==
    /\ pc = "convert"
    /\ schedule' = DecodeValues(IF IsList(schedule) THEN list_to_date_dict(schedule) ELSE schedule)
    /\ result' = WriteThrough(result, schedule', shared)
    /\ pc' = "datekeys"
    /\ UNCHANGED <<coerce_in, coerce_out, form, produced, crew_raises, today, pass, first, syllabus_text, exam_date,
                   days, raw, parsed_blob, topics, notes, quizzes, shared, context, raised>>

\* ------------------------------------------------------------------ plan(): date keys

\* date_re.match(k) for ^\d{4}-\d{2}-\d{2}$ ($ also matches before a last "\n")
DateKey(k) == IsDateAt(k, 1) /\ (Len(k) = 10 \/ (Len(k) = 11 /\ k[11] = "\n"))

keys_are_dates(d) == IsDict(d) /\ d.v # <<>> /\ \A i \in DOMAIN d.v : DateKey(d.v[i].k)

StrKeys(ps) == [i \in DOMAIN ps |-> Str(ps[i].k)]
StrList(ss) == [i \in DOMAIN ss |-> Str(ss[i])]

\* lines 271-277
ScheduleKeys(sch) ==
    IF IsDict(sch) /\ Truthy(sch) THEN StrKeys(sch.v)
    ELSE IF IsList(sch) THEN SelectSeq(sch.v, IsStr)
    ELSE IF IsStr(sch) /\ Strip(sch.v) # <<>> THEN StrList(SplitTopics(sch.v))
    ELSE <<>>

\* lines 271-284
TopicKeys(sch, qz, tp) ==
    LET OrElse(keys) ==
            IF keys # <<>> THEN keys
            ELSE IF IsDict(qz) THEN StrKeys(qz.v)
            ELSE IF Truthy(tp) THEN (IF IsList(tp) THEN tp.v ELSE <<tp>>)
            ELSE <<>>
    IN OrElse(ScheduleKeys(sch))

AllStr(xs) == \A i \in DOMAIN xs : IsStr(xs[i])

\* schedule.get(tname): a key that is no str is never found
GetByValue(ps, tname) == IF IsStr(tname) THEN DictGet(ps, tname.v) ELSE None

\* every date given the one-element list of its key, whatever the key's value
SequentialDatesByKey(sch, topic_keys, start) ==
    Dict([i \in DOMAIN topic_keys |->
            Pair(isoformat(AddDays(start, i - 1)), List(<<topic_keys[i]>>))])

\* new_schedule of lines 287-295
SequentialDates(sch, topic_keys, start) ==
    LET Kept(tname, val) == IF IsList(val) /\ AllStr(val.v) THEN val ELSE List(<<tname>>)
    IN Dict([i \in DOMAIN topic_keys |->
               Pair(isoformat(AddDays(start, i - 1)),
                    Kept(topic_keys[i], GetByValue(sch.v, topic_keys[i])))])

\* schedule.get(tname) raises: AttributeError when schedule is no dict, TypeError
\* when tname is a dict or a list (unhashable)
SequentialRaises(sch, topic_keys) ==
    IF ~IsDict(sch) THEN "AttributeError"
    ELSE IF \E i \in DOMAIN topic_keys : topic_keys[i].t \in {"dict", "list"} THEN "TypeError"
    ELSE ""

\* the outcome of a step that binds schedule: fresh when it is bound to a new dict
Bind(sch, exc, new) == [schedule |-> sch, raised |-> exc, fresh |-> new]

\* lines 285-295
Sequential(sch, topic_keys, now) ==
    LET Dated(exc) ==
            IF exc # "" THEN Bind(sch, exc, FALSE)
            ELSE Bind(SequentialDates(sch, topic_keys, now), "", TRUE)
    IN IF topic_keys = <<>> THEN Bind(sch, "", FALSE) ELSE Dated(SequentialRaises(sch, topic_keys))

\* the raw text consulted before the keys of the schedule are
DateKeyedRawFirst(sch, text, qz, tp, now) ==
    LET FromRaw(parsed_from_raw) ==
            IF Truthy(parsed_from_raw) THEN Bind(parsed_from_raw, "", TRUE)
            ELSE IF keys_are_dates(sch) THEN Bind(sch, "", FALSE)
            ELSE Sequential(sch, TopicKeys(sch, qz, tp), now)
    IN FromRaw(parse_schedule_from_text(text))

\* lines 264-296
DateKeyed(sch, text, qz, tp, now) ==
    LET FromRaw(parsed_from_raw) ==
            IF Truthy(parsed_from_raw) THEN Bind(parsed_from_raw, "", TRUE)
            ELSE Sequential(sch, TopicKeys(sch, qz, tp), now)
    IN IF keys_are_dates(sch) THEN Bind(sch, "", FALSE)
       ELSE FromRaw(parse_schedule_from_text(text))

DateKeys ==
    /\ pc = "datekeys"
    /\ LET Outcome(o) ==
               /\ schedule' = o.schedule
               /\ shared' = (shared /\ ~o.fresh)
               /\ raised' = o.raised
               /\ pc' = IF o.raised = "" THEN "values" ELSE "raised"
       IN Outcome(DateKeyed(schedule, raw, quizzes, topics, today))
    /\ UNCHANGED <<coerce_in, coerce_out, form, produced, crew_raises, today, pass, first, syllabus_text, exam_date,
                   days, result, raw, parsed_blob, topics, notes, quizzes, context>>

\* ------------------------------------------------------------------ plan(): schedule values

General == <<"G", "e", "n", "e", "r", "a", "l">>
KeyName == <<"n", "a", "m", "e">>
KeyTitle == <<"t", "i", "t", "l", "e">>

VOk(value) == [ok |-> TRUE, val |-> value, exc |-> ""]
VRaise(name) == [ok |-> FALSE, val |-> None, exc |-> name]

\* (a.get("question") if isinstance(a, dict) else str(a)) or ""
QuestionOf(a) == Or(IF IsDict(a) THEN DictGet(a.v, KeyQuestion) ELSE Str(PyStr(a)), EmptyStr)

\* lines 318-330: equal stays True over zip(qlist, val); .strip() on a value that
\* is no str raises inside the try, which leaves this tname unmatched
SameQuestions(qlist, val) ==
    LET Same(q) == IsStr(q[1]) /\ IsStr(q[2]) /\ Strip(q[1].v) = Strip(q[2].v)
    IN \A i \in 1..Len(val) :
          Same([side \in 1..2 |-> QuestionOf(IF side = 1 THEN qlist[i] ELSE val[i])])

\* lines 315-330: the first quizzes key whose question list equals val
ExactMatch(val, qz) ==
    LET First(c) == IF c = {} THEN None ELSE Str(qz.v[Min(c)].k)
    IN First(IF IsDict(qz)
             THEN {i \in DOMAIN qz.v : /\ IsList(qz.v[i].val)
                                       /\ Len(qz.v[i].val.v) = Len(val)
                                       /\ SameQuestions(qz.v[i].val.v, val)}
             ELSE {})

\* q.get("question", "") if isinstance(q, dict) else str(q)
JoinPart(q) ==
    IF IsDict(q) THEN (IF HasKey(q.v, KeyQuestion) THEN DictGet(q.v, KeyQuestion) ELSE EmptyStr)
    ELSE Str(PyStr(q))

\* the values "for t in topics" visits: not defined for an int
Iterate(x) ==
    CASE IsList(x) -> x.v
      [] IsStr(x) -> [i \in DOMAIN x.v |-> Str(<<x.v[i]>>)]
      [] IsDict(x) -> StrKeys(x.v)
      [] OTHER -> <<>>

\* lines 332-339, entered with not matched_topic and topics
TopicFallback(val, tp) ==
    LET Chosen(ts, c) ==
            IF c # {} /\ Truthy(ts[FirstOr(c, 1)]) THEN VOk(ts[FirstOr(c, 1)])
            ELSE IF IsDict(tp) THEN VRaise("KeyError")
            ELSE VOk(ts[1])
        Found(qtext, ts) ==
            Chosen(ts, {i \in DOMAIN ts : IsStr(ts[i]) /\ Contains(qtext, Lower(ts[i].v))})
        Joined(parts) ==
            IF ~AllStr(parts) THEN VRaise("TypeError")
            ELSE IF tp.t \notin {"list", "str", "dict"} THEN VRaise("TypeError")
            ELSE Found(Lower(JoinSpace([i \in DOMAIN parts |-> parts[i].v])), Iterate(tp))
    IN Joined([i \in DOMAIN val |-> JoinPart(val[i])])

\* lines 312-340: a list of question dicts becomes [matched_topic]
MatchQuizList(val, qz, tp) ==
    LET Named(matched_topic) ==
            VOk(List(<<IF Truthy(matched_topic) THEN matched_topic ELSE Str(General)>>))
        Fallen(fallback) == IF fallback.ok THEN Named(fallback.val) ELSE fallback
        Exact(exact) ==
            IF ~Truthy(exact) /\ Truthy(tp) THEN Fallen(TopicFallback(val, tp)) ELSE Named(exact)
    IN Exact(ExactMatch(val, qz))

\* [str(v).strip() for v in it.values() if isinstance(v, (str, int, float)) and str(v).strip()]
ScalarVals(ps) ==
    SelectSeq([i \in DOMAIN ps |->
                  IF ps[i].val.t \in {"str", "int"} THEN Strip(PyStr(ps[i].val)) ELSE <<>>],
              NonBlank)

\* lines 345-355: what one item appends to new_items
ItemStrings(it) ==
    LET Joined(vals) == IF vals # <<>> THEN <<Str(JoinSpace(vals))>> ELSE <<>>
        Stripped(name) == IF name # <<>> THEN <<Str(name)>> ELSE Joined(ScalarVals(it.v))
        Named(name) == Stripped(IF IsStr(name) THEN Strip(name.v) ELSE <<>>)
    IN IF IsStr(it) THEN <<Str(Strip(it.v))>>
       ELSE IF IsDict(it)
       THEN Named(Or(DictGet(it.v, KeyTopic), Or(DictGet(it.v, KeyName), DictGet(it.v, KeyTitle))))
       ELSE <<>>

\* lines 343-356
PlainList(val) ==
    LET Items(new_items) ==
            IF new_items # <<>> THEN List(new_items)
            ELSE IF val # <<>> THEN List(<<Str(PyStr(List(val)))>>)
            ELSE List(<<Str(General)>>)
    IN Items(Flatten([i \in DOMAIN val |-> ItemStrings(val[i])]))

\* lines 303-363 for one value of the schedule
NormalizeValue(val, qz, tp) ==
    LET Items(items) ==
            IF items # <<>> THEN List(StrList(items)) ELSE List(<<Str(Strip(val.v))>>)
    IN IF IsStr(val) THEN VOk(Items(SplitTopics(val.v)))
       ELSE IF IsList(val) THEN
            (IF val.v # <<>> /\ IsDict(val.v[1]) /\ HasKey(val.v[1].v, KeyQuestion)
             THEN MatchQuizList(val.v, qz, tp)
             ELSE VOk(PlainList(val.v)))
       ELSE VOk(List(<<Str(PyStr(val))>>))

\* what the body of the loop of lines 302-363 makes of each value
NormalizedValues(sch, qz, tp) ==
    [i \in DOMAIN sch.v |-> NormalizeValue(sch.v[i].val, qz, tp)]

\* the index of the first value that raises, past the end when none does
FirstRaise(rs) == FirstOr({i \in DOMAIN rs : ~rs[i].ok}, Len(rs) + 1)

\* the loop of lines 302-363 stops at the first value that raises
NormalizeRaises(rs, stop) == IF stop > Len(rs) THEN "" ELSE rs[stop].exc

\* the schedule after the loop; entries after a raising one keep their value
NormalizedUpTo(sch, rs, stop) ==
    Dict([i \in DOMAIN sch.v |-> IF i < stop THEN Pair(sch.v[i].k, rs[i].val) ELSE sch.v[i]])

\* lines 301-363
Normalized(sch, qz, tp) ==
    LET UpTo(rs, stop) == Bind(NormalizedUpTo(sch, rs, stop), NormalizeRaises(rs, stop), FALSE)
        Stopped(rs) == UpTo(rs, FirstRaise(rs))
    IN IF IsDict(sch) THEN Stopped(NormalizedValues(sch, qz, tp)) ELSE Bind(sch, "", FALSE)

NormalizeValues ==
    /\ pc = "values"
    /\ LET Outcome(o) ==
               /\ schedule' = o.schedule
               /\ raised' = o.raised
               /\ pc' = IF o.raised = "" THEN "topics" ELSE "raised"
       IN Outcome(Normalized(schedule, quizzes, topics))
    /\ result' = WriteThrough(result, schedule', shared)
    /\ UNCHANGED <<coerce_in, coerce_out, form, produced, crew_raises, today, pass, first, syllabus_text, exam_date,
                   days, raw, parsed_blob, topics, notes, quizzes, shared, context>>

\* ------------------------------------------------------------------ plan(): topics

StripStrs(xs) == [i \in DOMAIN xs |-> Str(Strip(xs[i].v))]

\* lines 370-377: what one schedule value adds to derived
ValueTopics(v) ==
    IF IsStr(v) THEN StrList(SplitTopics(v.v))
    ELSE IF IsList(v) THEN StripStrs(SelectSeq(v.v, IsStr))
    ELSE <<>>

\* lines 367-379
Derived(sch, qz) ==
    LET OrKeys(from_schedule) ==
            IF from_schedule = <<>> /\ IsDict(qz) THEN StrKeys(qz.v) ELSE from_schedule
    IN OrKeys(IF IsDict(sch) THEN Flatten([i \in DOMAIN sch.v |-> ValueTopics(sch.v[i].val)])
              ELSE <<>>)

\* the derived strings with their repetitions kept
DerivedTopicsRepeated(tp, sch, qz) == IF Truthy(tp) THEN tp ELSE List(Derived(sch, qz))

\* lines 366-380
DerivedTopics(tp, sch, qz) == IF Truthy(tp) THEN tp ELSE List(DictFromKeys(Derived(sch, qz)))

\* lines 383-386 on the topics of line 380: len() of an int raises; so does
\* str + list or dict + list, and dict.fromkeys over a dict or a list element
MergeSyllabus(tp, text) ==
    LET Merged(extracted) ==
            IF extracted = <<>> THEN VOk(tp)
            ELSE IF ~Truthy(tp) THEN VOk(List(DictFromKeys(StrList(extracted))))
            ELSE IF ~IsList(tp) THEN VRaise("TypeError")
            ELSE IF \E i \in DOMAIN tp.v : tp.v[i].t \in {"dict", "list"} THEN VRaise("TypeError")
            ELSE VOk(List(DictFromKeys(tp.v \o StrList(extracted))))
    IN IF Truthy(tp) /\ tp.t \notin {"list", "str", "dict"} THEN VRaise("TypeError")
       ELSE IF ~((~Truthy(tp) \/ PyLen(tp) < 2) /\ text # <<>>) THEN VOk(tp)
       ELSE Merged(extract_topics_from_syllabus_text(text))

\* lines 365-386
TopicsOf(tp, sch, qz, text) ==
    LET Outcome(derived, merged) ==
            [topics |-> IF merged.ok THEN merged.val ELSE derived, raised |-> merged.exc]
        From(derived) == Outcome(derived, MergeSyllabus(derived, text))
    IN From(DerivedTopics(tp, sch, qz))

DeriveTopics ==
    /\ pc = "topics"
    /\ LET Outcome(o) ==
               /\ topics' = o.topics
               /\ raised' = o.raised
               /\ pc' = IF o.raised = "" THEN "notes" ELSE "raised"
       IN Outcome(TopicsOf(topics, schedule, quizzes, syllabus_text))
    /\ UNCHANGED <<coerce_in, coerce_out, form, produced, crew_raises, today, pass, first, syllabus_text, exam_date,
                   days, result, raw, parsed_blob, schedule, notes, quizzes, shared, context>>

\* ------------------------------------------------------------------ plan(): notes and quizzes

\* lines 389-392
SalvagedNotes(nt, text) ==
    LET Salvaged(salv) == IF Truthy(salv) THEN salv ELSE nt
    IN IF (~Truthy(nt) \/ nt = EmptyDict) /\ text # <<>>
       THEN Salvaged(salvage_notes_from_raw(text))
       ELSE nt

SalvageNotes ==
    /\ pc = "notes"
    /\ notes' = SalvagedNotes(notes, raw)
    /\ pc' = "quizzes"
    /\ UNCHANGED <<coerce_in, coerce_out, form, produced, crew_raises, today, pass, first, syllabus_text, exam_date,
                   days, result, raw, parsed_blob, topics, schedule, quizzes, shared, context,
                   raised>>

\* lines 395-396
PreferBlobQuizzes(qz, blob) ==
    LET Preferred(held) == IF IsDict(held) THEN held ELSE qz
    IN IF IsList(qz) /\ Truthy(blob) THEN Preferred(DictGet(blob.v, KeyQuizzes)) ELSE qz

\* lines 399-402
ParsedQuizzes(qz) ==
    LET Parsed(parsed_q) == IF Truthy(parsed_q) THEN parsed_q ELSE qz
    IN IF IsStr(qz) /\ Strip(qz.v) # <<>> THEN Parsed(naive_parse_quizzes_from_text(qz.v)) ELSE qz

ParseQuizzes ==
    /\ pc = "quizzes"
    /\ quizzes' = ParsedQuizzes(PreferBlobQuizzes(quizzes, parsed_blob))
    /\ pc' = "auto"
    /\ UNCHANGED <<coerce_in, coerce_out, form, produced, crew_raises, today, pass, first, syllabus_text, exam_date,
                   days, result, raw, parsed_blob, topics, schedule, notes, shared, context,
                   raised>>

\* ------------------------------------------------------------------ plan(): auto schedule

topics_per_day == 2

\* math.ceil(n / per)
CeilDiv(n, per) == (n + per - 1) \div per

\* lines 411-414
SpanDays(tp, dys) ==
    LET Preferred(n_days) ==
            IF Truthy(dys) /\ dys.t = "int" /\ dys.v > 0 THEN Max({n_days, dys.v}) ELSE n_days
    IN Preferred(Max({1, CeilDiv(PyLen(tp), topics_per_day)}))

\* the slice that starts at the day's index: tp[day:day + topics_per_day]
SliceByDay(tp, lo) ==
    [t |-> tp.t,
     v |-> SubSeq(tp.v, lo \div topics_per_day + 1,
                  Min({lo \div topics_per_day + topics_per_day, PyLen(tp)}))]

\* tp[lo:lo + topics_per_day] (lo counts from 0) of a list or a str
Slice(tp, lo) ==
    [t |-> tp.t, v |-> SubSeq(tp.v, lo + 1, Min({lo + topics_per_day, PyLen(tp)}))]

\* lines 417-436: the first day; today when there is no exam date, when
\* fromisoformat raises or when the subtraction leaves the range of date
FirstDay(exam, n_days, now) ==
    LET Started(start) == IF InDateRange(start) THEN start ELSE now
        Ending(end) == IF end.ok THEN Started(AddDays(end.val, 0 - (n_days - 1))) ELSE now
    IN IF Truthy(exam) THEN Ending(fromisoformat(exam.v)) ELSE now

\* new_schedule of lines 416-436
GeneratedSchedule(tp, exam, dys, now) ==
    LET Days(n_days, start) ==
            Dict([i \in 1..n_days |->
                    Pair(isoformat(AddDays(start, i - 1)), Slice(tp, (i - 1) * topics_per_day))])
        Span(n_days) == Days(n_days, FirstDay(exam, n_days, now))
    IN Span(SpanDays(tp, dys))

\* line 409
NeedsAutoSchedule(sch, tp) ==
    (~Truthy(sch) \/ (IF IsDict(sch) THEN PyLen(sch) ELSE 0) <= 1) /\ Truthy(tp)

\* lines 407-439: len() or the slice raising inside the try leaves the schedule
AutoScheduled(sch, tp, exam, dys, now) ==
    IF NeedsAutoSchedule(sch, tp) /\ tp.t \in {"list", "str"}
    THEN GeneratedSchedule(tp, exam, dys, now)
    ELSE sch

AutoSchedule ==
    /\ pc = "auto"
    /\ schedule' = AutoScheduled(schedule, topics, exam_date, days, today)
    /\ shared' = (shared /\ schedule' = schedule)
    /\ pc' = "shapes"
    /\ UNCHANGED <<coerce_in, coerce_out, form, produced, crew_raises, today, pass, first, syllabus_text, exam_date,
                   days, result, raw, parsed_blob, topics, notes, quizzes, context, raised>>

\* ------------------------------------------------------------------ plan(): the context

\* x if isinstance(x, kinds) else ({key: x} if x else {})
Wrapped(x, kinds, key) ==
    IF x.t \in kinds THEN x ELSE IF Truthy(x) THEN Dict(<<Pair(key, x)>>) ELSE EmptyDict

\* notes handed on as it is
SafeNotesUnwrapped(nt) == nt

\* lines 446-447
SafeNotes(nt) == Wrapped(nt, {"dict", "str"}, KeyNotes)

\* lines 442-449
SafeShapes ==
    /\ pc = "shapes"
    /\ topics' = IF IsList(topics) THEN topics
                 ELSE IF Truthy(topics) THEN List(<<topics>>) ELSE EmptyList
    /\ schedule' = Wrapped(schedule, {"dict"}, <<>>)
    /\ notes' = SafeNotes(notes)
    /\ quizzes' = Wrapped(quizzes, {"dict"}, KeyQuizzes)
    /\ shared' = (shared /\ IsDict(schedule))
    /\ pc' = "assemble"
    /\ UNCHANGED <<coerce_in, coerce_out, form, produced, crew_raises, today, pass, first, syllabus_text, exam_date,
                   days, result, raw, parsed_blob, context, raised>>

\* lines 457-464; result_json holds the dict that json.dumps serializes
Document(tp, sch, nt, qz, text, r) ==
    [topics |-> tp, schedule |-> sch, notes |-> nt, quizzes |-> qz, raw |-> text,
     result_json |-> r]

Assemble ==
    /\ pc = "assemble"
    /\ context' = Document(topics, schedule, notes, quizzes, Str(raw), result)
    /\ pc' = "done"
    /\ UNCHANGED <<coerce_in, coerce_out, form, produced, crew_raises, today, pass, first, syllabus_text, exam_date,
                   days, result, raw, parsed_blob, topics, schedule, notes, quizzes, shared,
                   raised>>

\* ------------------------------------------------------------------ a second request

\* the document of pass 1 handed back as the producer's result of pass 2
AsProducerResult(doc) ==
    [MkResult(doc.topics, doc.schedule, doc.notes, doc.quizzes, Absent) EXCEPT !.raw = doc.raw]

NoDocument == Document(None, None, None, None, None, None)

Feedback ==
    /\ pc = "done"
    /\ pass = 1
    /\ pass' = 2
    /\ first' = context
    /\ produced' = AsProducerResult(context)
    /\ crew_raises' = FALSE
    /\ pc' = "read"
    /\ syllabus_text' = <<>> /\ exam_date' = None /\ days' = None
    /\ result' = None /\ raw' = <<>> /\ parsed_blob' = None
    /\ topics' = None /\ schedule' = None /\ notes' = None /\ quizzes' = None
    /\ shared' = FALSE
    /\ context' = NoDocument
    /\ UNCHANGED <<coerce_in, coerce_out, form, today, raised>>

\* ------------------------------------------------------------------ requests

MaxTopics == 3
MaxDays == 3
MaxKeys == 2
MaxLines == 3

SeqsUpTo(S, n) == UNION {[1..k -> S] : k \in 0..n}

\* "\n".join(lines)
JoinLines(lines) ==
    Flatten([i \in DOMAIN lines |-> IF i = 1 THEN lines[i] ELSE <<"\n">> \o lines[i]])

\* '- Arrays\n- math'
SyllabusText ==
    <<"-", " ", "A", "r", "r", "a", "y", "s", "\n", "-", " ", "m", "a", "t", "h">>

\* '2025-03-10'
ExamDay ==
    <<"2", "0", "2", "5", "-", "0", "3", "-", "1", "0">>

\* 'soon'
ExamSoon ==
    <<"s", "o", "o", "n">>

\* '0001-01-02'
ExamFirst ==
    <<"0", "0", "0", "1", "-", "0", "1", "-", "0", "2">>

\* 'Math'
Math ==
    <<"M", "a", "t", "h">>

\* 'math'
math ==
    <<"m", "a", "t", "h">>

\* 'Art'
Art ==
    <<"A", "r", "t">>

\* 'Arrays'
Arrays ==
    <<"A", "r", "r", "a", "y", "s">>

\* 'Loops'
Loops ==
    <<"L", "o", "o", "p", "s">>

\* 'Trees'
Trees ==
    <<"T", "r", "e", "e", "s">>

\* '- 2025-01-01: Intro\n- 2025-01-02: Loops'
DatedBullets ==
    <<"-", " ", "2", "0", "2", "5", "-", "0", "1", "-", "0", "1", ":", " ", "I", "n", "t", "r",
      "o", "\n", "-", " ", "2", "0", "2", "5", "-", "0", "1", "-", "0", "2", ":", " ", "L",
      "o", "o", "p", "s">>

\* 'Notes: foo bar\n\n'
NotesBlock ==
    <<"N", "o", "t", "e", "s", ":", " ", "f", "o", "o", " ", "b", "a", "r", "\n", "\n">>

\* 'Notes:\nArrays: contiguous\nLoops: repeat\n\n'
NotesLabelled ==
    <<"N", "o", "t", "e", "s", ":", "\n", "A", "r", "r", "a", "y", "s", ":", " ", "c", "o",
      "n", "t", "i", "g", "u", "o", "u", "s", "\n", "L", "o", "o", "p", "s", ":", " ", "r",
      "e", "p", "e", "a", "t", "\n", "\n">>

\* '| 2025-02-01 | Arrays, Loops |'
TableRow ==
    <<"|", " ", "2", "0", "2", "5", "-", "0", "2", "-", "0", "1", " ", "|", " ", "A", "r", "r",
      "a", "y", "s", ",", " ", "L", "o", "o", "p", "s", " ", "|">>

\* '{"schedule": {"Arrays": "intro", "Loops": "for, while"}, "topics": []}'
TopicBlob ==
    <<"{", "\"", "s", "c", "h", "e", "d", "u", "l", "e", "\"", ":", " ", "{", "\"", "A", "r",
      "r", "a", "y", "s", "\"", ":", " ", "\"", "i", "n", "t", "r", "o", "\"", ",", " ", "\"",
      "L", "o", "o", "p", "s", "\"", ":", " ", "\"", "f", "o", "r", ",", " ", "w", "h", "i",
      "l", "e", "\"", "}", ",", " ", "\"", "t", "o", "p", "i", "c", "s", "\"", ":", " ", "[",
      "]", "}">>

\* '["Arrays", "Loops"]'
EncodedTopics ==
    <<"[", "\"", "A", "r", "r", "a", "y", "s", "\"", ",", " ", "\"", "L", "o", "o", "p", "s",
      "\"", "]">>

\* '{"2025-01-01": ["Arrays"], "2025-01-02": "Loops, Trees"}'
EncodedSchedule ==
    <<"{", "\"", "2", "0", "2", "5", "-", "0", "1", "-", "0", "1", "\"", ":", " ", "[", "\"",
      "A", "r", "r", "a", "y", "s", "\"", "]", ",", " ", "\"", "2", "0", "2", "5", "-", "0",
      "1", "-", "0", "2", "\"", ":", " ", "\"", "L", "o", "o", "p", "s", ",", " ", "T", "r",
      "e", "e", "s", "\"", "}">>

\* '{"Arrays": "contiguous"}'
EncodedNotes ==
    <<"{", "\"", "A", "r", "r", "a", "y", "s", "\"", ":", " ", "\"", "c", "o", "n", "t", "i",
      "g", "u", "o", "u", "s", "\"", "}">>

\* '{"Arrays": [{"question": "2+2?", "answer_text": "4"}]}'
EncodedQuizzes ==
    <<"{", "\"", "A", "r", "r", "a", "y", "s", "\"", ":", " ", "[", "{", "\"", "q", "u", "e",
      "s", "t", "i", "o", "n", "\"", ":", " ", "\"", "2", "+", "2", "?", "\"", ",", " ", "\"",
      "a", "n", "s", "w", "e", "r", "_", "t", "e", "x", "t", "\"", ":", " ", "\"", "4", "\"",
      "}", "]", "}">>

\* 'not json'
NotJson ==
    <<"n", "o", "t", " ", "j", "s", "o", "n">>

\* 'abc'
Abc ==
    <<"a", "b", "c">>

\* 'Q: 2+2?\nA: 4'
QuizText ==
    <<"Q", ":", " ", "2", "+", "2", "?", "\n", "A", ":", " ", "4">>

\* a producer's topics
TypedTopics ==
    List(<<Str(<<"A", "r", "r", "a", "y", "s">>), Str(<<"L", "o", "o", "p", "s">>)>>)

\* a producer's schedule
TypedSchedule ==
    Dict(<<Pair(<<"2", "0", "2", "5", "-", "0", "1", "-", "0", "1">>, List(<<Str(<<"A", "r",
      "r", "a", "y", "s">>)>>)), Pair(<<"2", "0", "2", "5", "-", "0", "1", "-", "0", "2">>,
      List(<<Str(<<"L", "o", "o", "p", "s">>), Str(<<"T", "r", "e", "e", "s">>)>>))>>)

\* a producer's notes
TypedNotes ==
    Dict(<<Pair(<<"A", "r", "r", "a", "y", "s">>, Str(<<"c", "o", "n", "t", "i", "g", "u", "o",
      "u", "s">>))>>)

\* a producer's quizzes
TypedQuizzes ==
    Dict(<<Pair(<<"A", "r", "r", "a", "y", "s">>, List(<<Dict(<<Pair(<<"q", "u", "e", "s", "t",
      "i", "o", "n">>, Str(<<"2", "+", "2", "?">>)), Pair(<<"o", "p", "t", "i", "o", "n",
      "s">>, List(<<>>)), Pair(<<"a", "n", "s", "w", "e", "r", "_", "i", "n", "d", "e", "x">>,
      None), Pair(<<"a", "n", "s", "w", "e", "r", "_", "t", "e", "x", "t">>,
      Str(<<"4">>))>>)>>))>>)

\* 'Q: a'
LineQ1 ==
    <<"Q", ":", " ", "a">>

\* 'Q) b '
LineQ2 ==
    <<"Q", ")", " ", "b", " ">>

\* 'A: c'
LineA1 ==
    <<"A", ":", " ", "c">>

\* ' A. d'
LineA2 ==
    <<" ", "A", ".", " ", "d">>

\* 'Q:'
LineQ0 ==
    <<"Q", ":">>

\* 'see p. 4'
LineOther ==
    <<"s", "e", "e", " ", "p", ".", " ", "4">>

\* '5'
EncodedNumber ==
    <<"5">>

\* 'q1'
ItemQ1 ==
    <<"q", "1">>

\* ' q2 '
ItemQ2 ==
    <<" ", "q", "2", " ">>

\* '```json\n{"topics": ["Art"], "notes": ""}\n```'
FencedBlob ==
    <<"bq", "bq", "bq", "j", "s", "o", "n", "\n", "{", "\"", "t", "o", "p", "i", "c", "s", "\"",
      ":", " ", "[", "\"", "A", "r", "t", "\"", "]", ",", " ", "\"", "n", "o", "t", "e", "s",
      "\"", ":", " ", "\"", "\"", "}", "\n", "bq", "bq", "bq">>

\* '{"topics": ["Art"]}'
ShortBlob ==
    <<"{", "\"", "t", "o", "p", "i", "c", "s", "\"", ":", " ", "[", "\"", "A", "r", "t", "\"",
      "]", "}">>

\* the form's fields; <<>> is a field the browser left empty
Syllabi == {<<>>, SyllabusText}
ExamTexts == {<<>>, ExamDay, ExamSoon, ExamFirst}
DayTexts == {<<>>, <<"x">>} \cup {NatToStr(d) : d \in 0..MaxDays}

Forms ==
    {[syllabus_text |-> s, syllabus |-> <<>>, exam_date |-> e, days |-> d] :
        s \in Syllabi, e \in ExamTexts, d \in DayTexts}
    \cup {[syllabus_text |-> <<>>, syllabus |-> SyllabusText, exam_date |-> <<>>, days |-> <<>>]}

PlainForms == {f \in Forms : f.days = <<>> /\ f.syllabus = <<>> /\ f.exam_date \in {<<>>, ExamDay}}

\* every field typed, empty, JSON-encoded, malformed or absent
TopicsKinds == {TypedTopics, EmptyList, Str(EncodedTopics), Str(Math), Absent}
ScheduleKinds == {TypedSchedule, EmptyDict, Str(EncodedSchedule), Str(Abc), Absent}
NotesKinds == {TypedNotes, EmptyDict, Str(EncodedNotes), Str(EncodedNumber), Str(NotJson), Absent}
QuizzesKinds == {TypedQuizzes, EmptyDict, Str(EncodedQuizzes), Str(QuizText), Absent}

KindResults ==
    {MkResult(tp, sc, nt, qz, EmptyStr) :
        tp \in TopicsKinds, sc \in ScheduleKinds, nt \in NotesKinds, qz \in QuizzesKinds}

\* topics lists over a pool with two spellings of one topic
TopicPool == {Math, math, Art}

TopicResults ==
    {MkResult(List(StrList(tp)), EmptyDict, EmptyDict, EmptyDict, EmptyStr) :
        tp \in SeqsUpTo(TopicPool, MaxTopics)}

\* schedules keyed by topic names, every value a list of strings
NamePool == {Arrays, Loops, Trees}
ItemLists == {<<>>, <<Str(ItemQ1)>>, <<Str(ItemQ1), Str(ItemQ2)>>}

NamedSchedules ==
    {Dict([i \in DOMAIN ks |-> Pair(ks[i], List(vs[i]))]) :
        ks \in {q \in SeqsUpTo(NamePool, MaxKeys) : q # <<>> /\ \A i, j \in DOMAIN q : i # j => q[i] # q[j]},
        vs \in [1..MaxKeys -> ItemLists]}

RawTexts == {<<>>, DatedBullets, NotesBlock, NotesLabelled, TableRow, TopicBlob}

ScheduleResults ==
    {MkResult(EmptyList, sc, EmptyDict, EmptyDict, Str(md)) :
        sc \in NamedSchedules \cup {EmptyDict, Str(EncodedNumber), TypedSchedule}, md \in RawTexts}

\* typed or empty fields next to a raw text that holds a JSON object
BlobTexts == {TopicBlob, FencedBlob, ShortBlob}

BlobResults ==
    {MkResult(tp, sc, nt, EmptyDict, Str(md)) :
        tp \in {TypedTopics, EmptyList, Absent}, sc \in {TypedSchedule, EmptyDict},
        nt \in {TypedNotes, Absent}, md \in BlobTexts}

\* '2025-01-01', '2025-01-02'
Jan1 == <<"2", "0", "2", "5", "-", "0", "1", "-", "0", "1">>
Jan2 == <<"2", "0", "2", "5", "-", "0", "1", "-", "0", "2">>

\* {"question": "2+2?"}, {"question": " 2+2? "}, {"question": "why loops?"}
AskSum == Dict(<<Pair(KeyQuestion, Str(<<"2", "+", "2", "?">>))>>)
AskSumPadded == Dict(<<Pair(KeyQuestion, Str(<<" ", "2", "+", "2", "?", " ">>))>>)
AskLoops == Dict(<<Pair(KeyQuestion, Str(<<"w", "h", "y", " ", "l", "o", "o", "p", "s", "?">>))>>)

\* date-keyed schedules whose values are lists of question objects, next to a
\* quiz mapping and topics that may or may not match them
QuestionLists == {<<AskSum>>, <<AskLoops>>, <<AskSum, AskLoops>>}

QuestionSchedules ==
    {Dict(<<Pair(Jan1, List(a)), Pair(Jan2, List(b))>>) : a, b \in QuestionLists}

QuizMappings ==
    {EmptyDict,
     Dict(<<Pair(Arrays, List(<<AskSumPadded>>))>>),
     Dict(<<Pair(Trees, List(<<AskLoops>>)), Pair(Loops, List(<<AskLoops>>))>>),
     Dict(<<Pair(Art, List(<<AskSum, AskSum>>))>>)}

KnownTopicLists ==
    {EmptyList, List(<<Str(Arrays), Str(Loops)>>), List(<<Str(Art)>>), Str(Math)}

MatchResults ==
    {MkResult(tp, sc, EmptyDict, qz, EmptyStr) :
        tp \in KnownTopicLists, sc \in QuestionSchedules, qz \in QuizMappings}

\* quizzes strings of up to MaxLines lines
LinePool == {LineQ1, LineQ2, LineA1, LineA2, LineQ0, LineOther}

QuizResults ==
    {MkResult(EmptyList, EmptyDict, EmptyDict, Str(JoinLines(ls)), EmptyStr) :
        ls \in SeqsUpTo(LinePool, MaxLines) \ {<<>>}}

Today == [y |-> 2025, m |-> 1, d |-> 30]

Init ==
    /\ pc = "read"
    /\ pass = 1
    /\ today = Today
    /\ \/ produced \in KindResults /\ form \in PlainForms
       \/ produced \in TopicResults /\ form \in Forms
       \/ produced \in ScheduleResults /\ form \in PlainForms
       \/ produced \in QuizResults /\ form \in PlainForms
       \/ produced \in BlobResults /\ form \in PlainForms
       \/ produced \in MatchResults /\ form \in PlainForms
    /\ crew_raises \in {b \in BOOLEAN : b => produced = MkResult(EmptyList, EmptyDict, EmptyDict, EmptyDict, EmptyStr)}
    /\ first = NoDocument
    /\ context = NoDocument
    /\ syllabus_text = <<>> /\ exam_date = None /\ days = None
    /\ result = None /\ raw = <<>> /\ parsed_blob = None
    /\ topics = None /\ schedule = None /\ notes = None /\ quizzes = None
    /\ shared = FALSE
    /\ raised = ""
    /\ coerce_in = None /\ coerce_out = None

Next ==
    \/ ReadInputs
    \/ RunProducer
    \/ ExtractBlob
    \/ LoadFields
    \/ ConvertSchedule
    \/ DateKeys
    \/ NormalizeValues
    \/ DeriveTopics
    \/ SalvageNotes
    \/ ParseQuizzes
    \/ AutoSchedule
    \/ SafeShapes
    \/ Assemble
    \/ Feedback

Spec == Init /\ [][Next]_vars

\* ------------------------------------------------------------------ try_load_json on its own

MaxChars == 4

\* the characters of the strings handed to try_load_json
CoerceChars == {" ", "'", "\"", "a", "1", "[", "]"}

\* "{'a': 1}"
QuotedObject == <<"{", "'", "a", "'", ":", " ", "1", "}">>

\* ' {"a": [1]} '
PaddedObject == <<" ", "{", "\"", "a", "\"", ":", " ", "[", "1", "]", "}", " ">>

\* ' a b '
PaddedWords == <<" ", "a", " ", "b", " ">>

\* x: None, a number, a list, a dict, or a string
CoerceInputs ==
    {None, PyInt(5), EmptyList, EmptyDict, TypedTopics, TypedSchedule}
    \cup {Str(s) : s \in SeqsUpTo(CoerceChars, MaxChars) \cup {QuotedObject, PaddedObject, PaddedWords}}

\* one call try_load_json(x), lines 27-46
Coerce ==
    /\ pc = "coerce"
    /\ coerce_out' = try_load_json(coerce_in)
    /\ pc' = "coerced"
    /\ UNCHANGED <<coerce_in, form, produced, crew_raises, today, pass, first, syllabus_text,
                   exam_date, days, result, raw, parsed_blob, topics, schedule, notes, quizzes,
                   shared, context, raised>>

CoerceInit ==
    /\ pc = "coerce"
    /\ coerce_in \in CoerceInputs
    /\ coerce_out = None
    /\ pass = 1
    /\ today = Today
    /\ produced = MkResult(Absent, Absent, Absent, Absent, Absent)
    /\ form = [syllabus_text |-> <<>>, syllabus |-> <<>>, exam_date |-> <<>>, days |-> <<>>]
    /\ crew_raises = FALSE
    /\ first = NoDocument
    /\ context = NoDocument
    /\ syllabus_text = <<>> /\ exam_date = None /\ days = None
    /\ result = None /\ raw = <<>> /\ parsed_blob = None
    /\ topics = None /\ schedule = None /\ notes = None /\ quizzes = None
    /\ shared = FALSE
    /\ raised = ""

CoerceNext == Coerce

CoerceSpec == CoerceInit /\ [][CoerceNext]_vars

\* ------------------------------------------------------------------ properties

\* the pattern YYYY-MM-DD
DatePattern(k) ==
    Len(k) = 10 /\ \A i \in 1..10 : IF i \in {5, 8} THEN k[i] = "-" ELSE IsDigit(k[i])

\* C1: normalization is total: for every producer result whose topics, schedule,
\* notes and quizzes are each a typed structure, a JSON-encoded string, a
\* malformed string or absent, and every form, plan() reaches the assembled
\* document and no exception leaves it.
C1_NormalizationTotal == pass = 1 => pc # "raised"

\* C2: in every assembled document every key of the schedule matches
\* YYYY-MM-DD, whatever the producer's schedule, the embedded JSON or the raw
\* text held.
C2_ScheduleKeysAreDates ==
    pc = "done" => \A i \in DOMAIN context.schedule.v : DatePattern(context.schedule.v[i].k)

\* C3: in every assembled document every value of the schedule is a list whose
\* elements are all strings, also when the schedule was generated from topics.
C3_ScheduleValuesAreStringLists ==
    pc = "done" =>
        \A i \in DOMAIN context.schedule.v :
            /\ IsList(context.schedule.v[i].val)
            /\ \A j \in DOMAIN context.schedule.v[i].val.v : IsStr(context.schedule.v[i].val.v[j])

\* C4: in every assembled document whose topics list is not empty, no value of
\* the schedule is an empty list, also when the requested day count exceeds
\* ceil(topic count / 2).
C4_NoEmptyDay ==
    pc = "done" /\ context.topics.v # <<>> =>
        \A i \in DOMAIN context.schedule.v : context.schedule.v[i].val # EmptyList

\* C5: in every assembled document no two entries of topics are equal under
\* case-insensitive comparison.
C5_TopicsUniqueIgnoringCase ==
    pc = "done" =>
        \A i, j \in DOMAIN context.topics.v :
            (i # j /\ IsStr(context.topics.v[i]) /\ IsStr(context.topics.v[j]))
                => Lower(context.topics.v[i].v) # Lower(context.topics.v[j].v)

\* C6 as stated: in every assembled document notes is a mapping and never any
\* other shape, also when it was salvaged from a "Notes" section without
\* "Label: text" lines.
C6_NotesIsMapping == pc = "done" => IsDict(context.notes)

\* C6 amended: in every assembled document notes is a mapping or a string, and
\* never any other shape; content that is neither is wrapped under the key
\* "notes".
C6_NotesIsMappingOrString == pc = "done" => IsDict(context.notes) \/ IsStr(context.notes)

\* a document whose notes is the text salvaged from an unlabelled "Notes" section
C6_SalvagedString ==
    /\ pc = "done"
    /\ pass = 1
    /\ produced.notes = EmptyDict
    /\ IsStr(context.notes)
    /\ context.notes.v # <<>>

\* the fields of a document that are fed back
FedBack == {"topics", "schedule", "notes", "quizzes", "raw"}

\* C7: normalization is idempotent: a document fed back as the producer's
\* result, with the same form, yields a document equal to the first one.
C7_Idempotent ==
    (pass = 2 /\ pc \in {"done", "raised"}) =>
        (pc = "done" /\ \A f \in FedBack : context[f] = first[f])

\* the request of Scenario B: a producer schedule keyed by names that are no
\* dates, every value a list of strings, topics, quizzes and notes empty, and a
\* raw text without dates
ScenarioB ==
    /\ pass = 1
    /\ ~crew_raises
    /\ IsDict(produced.schedule)
    /\ produced.schedule.v # <<>>
    /\ \A i \in DOMAIN produced.schedule.v :
          /\ ~DatePattern(produced.schedule.v[i].k)
          /\ IsList(produced.schedule.v[i].val)
          /\ AllStr(produced.schedule.v[i].val.v)
    /\ produced.topics = EmptyList
    /\ produced.quizzes = EmptyDict
    /\ produced.notes = EmptyDict
    /\ ~\E i \in DOMAIN produced.full_markdown.v : IsDateAt(produced.full_markdown.v, i)

\* the i-th of the consecutive dates that start today
DayFromToday(i) == isoformat(AddDays(today, i - 1))

\* C8 as stated: in Scenario B the schedule has one key per original key, the
\* keys are consecutive dates from today in the original order, and each value
\* is the one-element list holding the original key.
C8_ScenarioBKeysAsValues ==
    (pc = "done" /\ ScenarioB) =>
        context.schedule =
            Dict([i \in DOMAIN produced.schedule.v |->
                    Pair(DayFromToday(i), List(<<Str(produced.schedule.v[i].k)>>))])

\* what the schedule keeps of a list of strings
KeptItems(items) ==
    IF items = <<>> THEN <<Str(General)>> ELSE [j \in DOMAIN items |-> Str(Strip(items[j].v))]

\* Scenario B with at least two keys and no JSON object in the raw text
ScenarioBSeveralKeys ==
    /\ ScenarioB
    /\ Len(produced.schedule.v) >= 2
    /\ "{" \notin Range(produced.full_markdown.v)

\* C8 amended: in Scenario B with at least two keys and no JSON object in the
\* raw text, the schedule has one key per original key, the keys are consecutive
\* dates from today in the original order, and each value is the original key's
\* list of strings, each stripped (["General"] when that list is empty).
C8_ScenarioBOriginalValues ==
    (pc = "done" /\ ScenarioBSeveralKeys) =>
        context.schedule =
            Dict([i \in DOMAIN produced.schedule.v |->
                    Pair(DayFromToday(i), List(KeptItems(produced.schedule.v[i].val.v)))])

\* a document of Scenario B with two keys, one of them with a list to strip
C8_ScenarioBDone ==
    /\ pc = "done"
    /\ ScenarioBSeveralKeys
    /\ \E i \in DOMAIN produced.schedule.v : produced.schedule.v[i].val = List(<<Str(ItemQ1), Str(ItemQ2)>>)
    /\ Len(context.schedule.v) = Len(produced.schedule.v)

\* the number of topics when the schedule is generated: a scalar is one topic
TopicCount == IF IsList(topics) THEN Len(topics.v) ELSE 1

\* the requested day count, 0 when none was supplied
RequestedDays == IF days.t = "int" /\ days.v > 0 THEN days.v ELSE 0

\* max(ceil(n / 2), requested day count)
ExpectedSpan == Max({(TopicCount + 1) \div 2, RequestedDays})

\* the auto schedule is about to run on a schedule of at most one entry, with
\* topics and a valid target date that leaves room for the span
AutoScheduleApplies ==
    /\ pc = "auto"
    /\ IsDict(schedule)
    /\ Len(schedule.v) <= 1
    /\ Truthy(topics)
    /\ IsStr(exam_date)
    /\ fromisoformat(exam_date.v).ok
    /\ InDateRange(AddDays(fromisoformat(exam_date.v).val, 1 - ExpectedSpan))

\* sch holds exactly n consecutive dates, the last of them end
EndsOn(sch, n, end) ==
    /\ IsDict(sch)
    /\ Len(sch.v) = n
    /\ \A i \in 1..n : sch.v[i].k = isoformat(AddDays(end, i - n))

\* C9: when the recovered schedule has at most one entry, n >= 1 topics exist
\* and a valid target date is supplied, the generated schedule is exactly
\* max(ceil(n / 2), requested day count) consecutive dates and its last key is
\* the target date.
C9_AutoScheduleSpan ==
    [][AutoScheduleApplies =>
         EndsOn(schedule', ExpectedSpan, fromisoformat(exam_date.v).val)]_vars

\* the text of a line that holds the letter, one of the marks, and a text
MarkedText(line, letter, marks) ==
    LET from == SkipSpace(line, 1)
    IN IF from + 1 <= Len(line) /\ line[from] = letter /\ line[from + 1] \in marks
       THEN Strip(Drop(line, from + 2))
       ELSE <<>>

\* the texts of the question lines and of the answer lines of the producer's
\* quizzes string, in line order
QuestionTexts ==
    SelectSeq([i \in DOMAIN SplitLines(produced.quizzes.v) |->
                  MarkedText(SplitLines(produced.quizzes.v)[i], "Q", {":", ".", ")"})],
              NonBlank)
AnswerTexts ==
    SelectSeq([i \in DOMAIN SplitLines(produced.quizzes.v) |->
                  MarkedText(SplitLines(produced.quizzes.v)[i], "A", {":", ".", ")"})],
              NonBlank)

\* C10: when the producer's quizzes is a non-JSON string with k >= 1 question
\* lines and m answer lines, quizzes is a mapping with one synthetic group of
\* exactly k question objects in line order; the i-th holds the i-th question,
\* the i-th answer (the empty string when i > m), no options and no answer index.
C10_QuestionsPairedInOrder ==
    (pc = "done" /\ pass = 1 /\ ~crew_raises /\ IsStr(produced.quizzes)
       /\ produced.full_markdown = EmptyStr /\ QuestionTexts # <<>>) =>
        /\ IsDict(context.quizzes)
        /\ Len(context.quizzes.v) = 1
        /\ IsList(context.quizzes.v[1].val)
        /\ Len(context.quizzes.v[1].val.v) = Len(QuestionTexts)
        /\ \A i \in DOMAIN QuestionTexts :
              /\ IsDict(context.quizzes.v[1].val.v[i])
              /\ DictGet(context.quizzes.v[1].val.v[i].v, KeyQuestion) = Str(QuestionTexts[i])
              /\ DictGet(context.quizzes.v[1].val.v[i].v, KeyAnswerText)
                     = (IF i <= Len(AnswerTexts) THEN Str(AnswerTexts[i]) ELSE EmptyStr)
              /\ DictGet(context.quizzes.v[1].val.v[i].v, KeyOptions) = EmptyList
              /\ DictGet(context.quizzes.v[1].val.v[i].v, KeyAnswerIndex) = None

\* the entries of seq with first occurrences kept
FirstOccurrences(seq) ==
    LET Kept == {i \in DOMAIN seq : \A j \in 1..(i - 1) : seq[j] # seq[i]}
        Nth(n) == CHOOSE i \in Kept : Cardinality({j \in Kept : j <= i}) = n
    IN [n \in 1..Cardinality(Kept) |-> seq[Nth(n)]]

\* the topic strings of the values of a normalized schedule, in schedule order,
\* each stripped
ScheduleStrings(sch) ==
    IF IsDict(sch)
    THEN Flatten([i \in DOMAIN sch.v |->
                    IF IsList(sch.v[i].val)
                    THEN [j \in DOMAIN SelectSeq(sch.v[i].val.v, IsStr) |->
                            Str(Strip(SelectSeq(sch.v[i].val.v, IsStr)[j].v))]
                    ELSE <<>>])
    ELSE <<>>

\* the schedule's strings with first occurrences kept, or the quiz keys when
\* the schedule yields none
TopicsFromSchedule(sch, qz) ==
    IF ScheduleStrings(sch) # <<>> THEN FirstOccurrences(ScheduleStrings(sch))
    ELSE IF IsDict(qz) THEN [i \in DOMAIN qz.v |-> Str(qz.v[i].k)]
    ELSE <<>>

\* fewer than two topics and a subject text: its candidates are appended
WithCandidates(base, text) ==
    IF Len(base) < 2 /\ text # <<>>
    THEN FirstOccurrences(base \o [i \in DOMAIN extract_topics_from_syllabus_text(text) |->
                                      Str(extract_topics_from_syllabus_text(text)[i])])
    ELSE base

\* 'Intro'
Intro == <<"I", "n", "t", "r", "o">>

\* Scenario A: the dated bullets as raw text, every other field empty
ScenarioA ==
    /\ pass = 1
    /\ ~crew_raises
    /\ produced = MkResult(EmptyList, EmptyDict, EmptyDict, EmptyDict, Str(DatedBullets))

\* the document Scenario A expects
ScenarioADocument ==
    /\ context.schedule = Dict(<<Pair(Jan1, List(<<Str(Intro)>>)), Pair(Jan2, List(<<Str(Loops)>>))>>)
    /\ context.topics = List(<<Str(Intro), Str(Loops)>>)

\* C11 as stated: when the producer's topics field is empty or absent, topics
\* are the strings of the normalized schedule's values, flattened in schedule
\* order with first occurrences kept, and the quiz keys only when the schedule
\* yields none; Scenario A gives its schedule and topics [Intro, Loops].
C11_TopicsFromScheduleOnly ==
    /\ [][(pc = "topics" /\ produced.topics \in {EmptyList, Absent})
            => topics' = List(TopicsFromSchedule(schedule, quizzes))]_vars
    /\ []((pc = "done" /\ ScenarioA) => ScenarioADocument)

\* C11 amended: when the topics field is empty or absent (also after the
\* embedded JSON was applied), topics are the stripped strings of the normalized
\* schedule's values with first occurrences kept, the quiz keys when the
\* schedule yields none, and, when that leaves fewer than two and there is a
\* subject text, its candidates appended; Scenario A as stated.
C11_TopicsFromScheduleThenText ==
    /\ [][(pc = "topics" /\ produced.topics \in {EmptyList, Absent}
             /\ result.topics \in {EmptyList, Absent})
            => topics' = List(WithCandidates(TopicsFromSchedule(schedule, quizzes), syllabus_text))]_vars
    /\ []((pc = "done" /\ ScenarioA) => ScenarioADocument)

\* Scenario A's document: topics derived from the schedule found in the raw text
C11_ScenarioADone == pc = "done" /\ ScenarioA /\ ScenarioADocument

\* the substitute for the result of a producer that raised
Substitute == MkResult(EmptyList, EmptyDict, EmptyDict, EmptyDict, Str(CrewError))

\* C12: when the producer call raises, the fault is not propagated:
\* normalization runs on a substitute result whose topics, schedule, notes and
\* quizzes are the empty defaults and whose full_markdown is the error
\* description, and the document's raw field is that error description.
C12_ProducerFaultSubstituted ==
    (pass = 1 /\ crew_raises) =>
        /\ pc # "raised"
        /\ pc \notin {"read", "run"} => result = Substitute
        /\ pc = "done" => context.raw = Str(CrewError) /\ context.result_json = Substitute

\* a document assembled after the producer raised
C12_FaultDocument == pc = "done" /\ pass = 1 /\ crew_raises /\ context.raw = Str(CrewError)

\* the two parses of a string: strict, and with every ' replaced by "
StrictParse(s) == json_loads(s)
RepairedParse(s) == json_loads(Replace(s, "'", "\""))

\* C13: try_load_json never raises; a mapping or sequence is returned
\* unchanged, None as None, a string that parses as strict JSON as the parsed
\* value, a string that parses only after replacing ' by " as that parsed value,
\* and a string that fails both parses as the original string, leading and
\* trailing whitespace included.
C13_CoercionCases ==
    pc = "coerced" =>
        /\ coerce_in.t \in {"dict", "list", "none"} => coerce_out = coerce_in
        /\ (IsStr(coerce_in) /\ StrictParse(coerce_in.v).ok)
              => coerce_out = StrictParse(coerce_in.v).val
        /\ (IsStr(coerce_in) /\ ~StrictParse(coerce_in.v).ok /\ RepairedParse(coerce_in.v).ok)
              => coerce_out = RepairedParse(coerce_in.v).val
        /\ (IsStr(coerce_in) /\ ~StrictParse(coerce_in.v).ok /\ ~RepairedParse(coerce_in.v).ok)
              => coerce_out = coerce_in

\* the recognized top-level keys
Recognized == {"topics", "schedule", "notes", "quizzes"}

\* the stretch of the text from its first "{" to its last "}", <<>> without one
BraceStretch(text) ==
    IF \E i, j \in DOMAIN text : i < j /\ text[i] = "{" /\ text[j] = "}"
    THEN SubSeq(text, Min({i \in DOMAIN text : text[i] = "{"}),
                Max({j \in DOMAIN text : text[j] = "}"}))
    ELSE <<>>

\* the raw text holds a parseable JSON object
HoldsObject(text) == json_loads(BraceStretch(text)).ok /\ IsDict(json_loads(BraceStretch(text)).val)

\* result is the producer's fields with the fields of obj laid over them,
\* except the values of obj that are among ignored
LaidOver(obj, ignored) ==
    \A field \in Recognized :
        result[field] = IF HasKey(obj.v, KeyOf(field)) /\ DictGet(obj.v, KeyOf(field)) \notin ignored
                        THEN DictGet(obj.v, KeyOf(field))
                        ELSE produced[field]

\* C14 as stated: when the raw text holds a parseable embedded JSON object,
\* every recognized key the object contains overrides the producer's field
\* before any normalizer runs, and every recognized key it does not contain
\* leaves the producer's field unchanged.
C14_EveryHeldKeyOverrides ==
    (pc = "load" /\ pass = 1 /\ ~crew_raises /\ HoldsObject(raw))
        => LaidOver(json_loads(BraceStretch(raw)).val, {})

\* C14 amended: when the embedded-object extractor returns an object, every
\* recognized key the object contains with a value other than null, [], {} and
\* "" overrides the producer's field before any normalizer runs, and every other
\* recognized key leaves the producer's field unchanged.
C14_NonEmptyKeysOverride ==
    (pc = "load" /\ pass = 1 /\ ~crew_raises /\ IsDict(parsed_blob))
        => LaidOver(parsed_blob, {None, EmptyList, EmptyDict, EmptyStr})

\* the extractor found an object whose schedule replaced the producer's while
\* its empty topics left the producer's topics in place
C14_OverriddenAndKept ==
    /\ pc = "load"
    /\ pass = 1
    /\ IsDict(parsed_blob)
    /\ DictGet(parsed_blob.v, KeyTopics) = EmptyList
    /\ produced.topics = TypedTopics /\ result.topics = TypedTopics
    /\ produced.schedule = TypedSchedule /\ result.schedule = DictGet(parsed_blob.v, KeySchedule)

\* a non-empty mapping whose keys all match the date pattern
AllDateKeys(sch) ==
    IsDict(sch) /\ sch.v # <<>> /\ \A i \in DOMAIN sch.v : DatePattern(sch.v[i].k)

\* a mapping whose keys are the consecutive dates that start today
SequentialFromToday(sch) ==
    IsDict(sch) /\ sch.v # <<>> /\ \A i \in DOMAIN sch.v : sch.v[i].k = DayFromToday(i)

\* C15: the schedule cascade has strict precedence: a non-empty mapping whose
\* keys all match the date pattern is kept, whatever the raw text holds;
\* otherwise a non-empty result of the date-to-topics extractor on the raw text
\* replaces the schedule wholesale; only when both fail are sequential dates
\* from today synthesized.
C15_CascadePrecedence ==
    [][pc = "datekeys" =>
         /\ AllDateKeys(schedule) => (schedule' = schedule /\ pc' = "values")
         /\ (~AllDateKeys(schedule) /\ Truthy(parse_schedule_from_text(raw)))
               => (schedule' = parse_schedule_from_text(raw) /\ pc' = "values")
         /\ (~AllDateKeys(schedule) /\ ~Truthy(parse_schedule_from_text(raw)))
               => \/ pc' = "raised"
                  \/ schedule' = schedule
                  \/ SequentialFromToday(schedule')]_vars

\* a date-keyed schedule kept although the raw text holds dated lines
C15_KeptDespiteRawDates ==
    /\ pc = "values"
    /\ pass = 1
    /\ schedule = TypedSchedule
    /\ raw = DatedBullets
    /\ Truthy(parse_schedule_from_text(raw))

\* the question text of a question object, stripped
QuestionText(q) ==
    IF IsDict(q) /\ IsStr(DictGet(q.v, KeyQuestion)) THEN Strip(DictGet(q.v, KeyQuestion).v) ELSE <<>>

\* a non-empty list of question-like objects
QuestionList(val) ==
    /\ IsList(val)
    /\ val.v # <<>>
    /\ \A j \in DOMAIN val.v : IsDict(val.v[j]) /\ HasKey(val.v[j].v, KeyQuestion)

\* the known topics: a scalar is one topic
KnownTopics(tp) == IF IsList(tp) THEN tp.v ELSE IF Truthy(tp) THEN <<tp>> ELSE <<>>

\* the topics of the quiz mapping whose question list equals qs text by text
ExactTopics(qs, qz) ==
    IF IsDict(qz)
    THEN {i \in DOMAIN qz.v :
            /\ IsList(qz.v[i].val)
            /\ Len(qz.v[i].val.v) = Len(qs)
            /\ \A j \in DOMAIN qs : QuestionText(qz.v[i].val.v[j]) = QuestionText(qs[j])}
    ELSE {}

\* the known topics whose name occurs in the joined question text, ignoring case
RelevantTopics(qs, known) ==
    {i \in DOMAIN known :
        /\ IsStr(known[i])
        /\ Contains(Lower(JoinSpace([j \in DOMAIN qs |-> DictGet(qs[j].v, KeyQuestion).v])),
                    Lower(known[i].v))}

\* the ranked choice: exact match, then relevance, then the first known topic,
\* then the default label
RankedTopic(qs, qz, known) ==
    IF ExactTopics(qs, qz) # {} THEN Str(qz.v[Min(ExactTopics(qs, qz))].k)
    ELSE IF RelevantTopics(qs, known) # {} THEN known[Min(RelevantTopics(qs, known))]
    ELSE IF known # <<>> THEN known[1]
    ELSE Str(General)

\* C16: a schedule value that is a non-empty list of question-like objects is
\* replaced by a one-element list chosen by ranked matching: the first topic of
\* the quiz mapping with a question list of the same length and pairwise-equal
\* texts; failing that the first known topic whose name occurs in the joined
\* question text, ignoring case; failing that the first known topic; and
\* "General" only when there is no exact match and no topic is known.
C16_RankedMatching ==
    [][(pc = "values" /\ IsDict(schedule)) =>
          \A i \in DOMAIN schedule.v :
              QuestionList(schedule.v[i].val) =>
                  schedule'.v[i].val
                      = List(<<RankedTopic(schedule.v[i].val.v, quizzes, KnownTopics(topics))>>)]_vars


\* what planner_crew.run() handed to plan(): its return value, or the
\* substitute when it raised
Received == IF crew_raises THEN Substitute ELSE produced

\* C17: normalization does not modify the producer result it was given: its
\* topics, schedule, notes and quizzes fields, and the values inside the schedule
\* mapping, stay the ones the producer returned, so the snapshot placed in the
\* document is a snapshot of the producer result as received.
C17_ProducerResultUntouched ==
    /\ pc \notin {"read", "run"} => result = Received
    /\ pc = "done" => context.result_json = Received


\* a is a day before b
Earlier(a, b) ==
    \/ a.y < b.y
    \/ a.y = b.y /\ a.m < b.m
    \/ a.y = b.y /\ a.m = b.m /\ a.d < b.d

\* the day a schedule entry is keyed by
DayOf(entry) == fromisoformat(entry.k).val

\* the entries of a date-keyed schedule in ascending date order
ByDate(sch) ==
    [i \in DOMAIN sch.v |->
        CHOOSE e \in Range(sch.v) :
            Cardinality({f \in Range(sch.v) : Earlier(DayOf(f), DayOf(e))}) = i - 1]

\* the schedule values concatenated in ascending date order
ScheduledInOrder(sch) == Flatten([i \in DOMAIN sch.v |-> ByDate(sch)[i].val.v])

\* the auto schedule is about to generate a schedule from a topics list
GeneratesFromList == pc = "auto" /\ NeedsAutoSchedule(schedule, topics) /\ IsList(topics)

\* C18: whenever the schedule is auto-generated from a topics list, the day
\* lists partition the topics: the schedule values concatenated in ascending
\* date order are exactly the topics list, and no day holds more than 2 topics.
C18_AutoSchedulePartitions ==
    [][GeneratesFromList =>
         /\ IsDict(schedule')
         /\ \A i \in DOMAIN schedule'.v : fromisoformat(schedule'.v[i].k).ok
         /\ \A i, j \in DOMAIN schedule'.v : i # j => schedule'.v[i].k # schedule'.v[j].k
         /\ ScheduledInOrder(schedule') = topics.v
         /\ \A i \in DOMAIN schedule'.v : PyLen(schedule'.v[i].val) <= 2]_vars

\* a schedule generated from three topics: two on the first day, one on the next
C18_ThreeTopicsOverTwoDays ==
    /\ pc = "shapes"
    /\ pass = 1
    /\ ~Truthy(produced.schedule)
    /\ IsList(topics)
    /\ Len(topics.v) = 3
    /\ IsDict(schedule)
    /\ Len(schedule.v) = 2
    /\ schedule.v[1].val.v = SubSeq(topics.v, 1, 2)
    /\ schedule.v[2].val.v = SubSeq(topics.v, 3, 3)

====
